---- MODULE Spec2Model ----
(***************************************************************************)
(* Turn orchestration and dialogue-state machine of the travel assistant   *)
(* backend (backend/core, backend/utils, backend/llm, backend/models).     *)
(*                                                                         *)
(* Texts are sequences of word tokens (strings).  A substring test of the  *)
(* code ("x in low") is a token-membership test here, a regular expression *)
(* over adjacent words is a test over adjacent tokens, and str.strip() is  *)
(* the removal of leading and trailing whitespace tokens.  Optional[int],  *)
(* Optional[date] and Optional[tuple] values are sets with at most one     *)
(* element ({} is None); Optional[str] and Optional[Intent] use "None".    *)
(* Dates are day numbers relative to date.today(), which is day 0.         *)
(***************************************************************************)
EXTENDS Integers, Sequences, FiniteSets, TLC

VARIABLES
    store,   \* StateManager._states: session id -> heap address, 0 = no entry
    heap,    \* the State objects ever constructed, by address
    thr,     \* per worker: position inside handle_turn and its local variables
    now,     \* the clock read by datetime.now(timezone.utc), in minutes
    probe    \* a call of one function of the rules: its arguments and its result

vars == <<store, heap, thr, now, probe>>

(***************************************************************************)
(* Bounds of the model.                                                    *)
(***************************************************************************)
MaxTurns == 3          \* calls of handle_turn per session that are explored
MaxHistory == 5        \* StateManager(max_history_messages=...), default 12
MaxCallsPerWorker == 1 \* calls of handle_turn by one worker of the thread pool
MaxClock == 1          \* jumps of the clock past the session time-to-live
MaxWideTurns == 2      \* calls of handle_turn explored over the wider requests
MaxAppends == 7        \* calls of add_message explored on the session store
MaxStoreClock == 3     \* steps of half the time-to-live the clock of the store takes
MaxProfileCalls == 3   \* calls of apply_updates explored on one trip profile
MaxCurrencyTurns == 2  \* calls of handle_turn explored over the currency requests

(***************************************************************************)
(* Program constants.                                                      *)
(***************************************************************************)
max_lookback_user_messages == 10
session_ttl_minutes == 60
horizon_days == 16
FORECAST_HORIZON_DAYS == 16

SessionIds == {"s1"}
Workers == {"t1", "t2"}

None == "None"

Min(S) == CHOOSE x \in S : \A y \in S : x <= y

\* x[:1] of a list
First1(s) == IF Len(s) = 0 THEN <<>> ELSE <<s[1]>>

\* x[-n:] of a list
LastN(s, n) == IF Len(s) <= n THEN s ELSE SubSeq(s, Len(s) - n + 1, Len(s))

\* x[:-1] of a list
AllButLast(s) == IF Len(s) = 0 THEN <<>> ELSE SubSeq(s, 1, Len(s) - 1)

HasTok(text, S) == \E i \in 1..Len(text) : text[i] \in S

(***************************************************************************)
(* models/intent.py                                                        *)
(***************************************************************************)
ITINERARY_PLANNING == "itinerary_planning"
ATTRACTIONS_RECOMMENDATIONS == "attractions_recommendations"
PACKING_LIST == "packing_list"
WEATHER_QUERY == "weather_query"
CURRENCY_CONVERSION == "currency_conversion"
CONSTRAINTS_UPDATE == "constraints_update"
CLARIFICATION_NEEDED == "clarification_needed"
OUT_OF_SCOPE == "out_of_scope"

Intent == {ITINERARY_PLANNING, ATTRACTIONS_RECOMMENDATIONS, PACKING_LIST,
           WEATHER_QUERY, CURRENCY_CONVERSION, CONSTRAINTS_UPDATE,
           CLARIFICATION_NEEDED, OUT_OF_SCOPE}

GOAL_INTENTS == {ITINERARY_PLANNING, ATTRACTIONS_RECOMMENDATIONS, PACKING_LIST,
                 WEATHER_QUERY, CURRENCY_CONVERSION}

(***************************************************************************)
(* models/decision.py                                                      *)
(***************************************************************************)
ASK_CLARIFICATION == "ask_clarification"
GENERATE_RESPONSE == "generate_response"
CALL_TOOL == "call_tool"
OUT_OF_SCOPE_RESPONSE == "out_of_scope_response"

Decision(action, missing_info, tool_name, tool_payload) ==
    [action |-> action, missing_info |-> missing_info,
     tool_name |-> tool_name, tool_payload |-> tool_payload]

\* the local decision before DecisionLogic.decide has run
NoDecision == Decision(None, <<>>, None, {})

\* Decision._check_tool_name: TRUE when it returns, FALSE when it raises ValueError
check_tool_name(d) ==
    IF d.action = CALL_TOOL THEN d.tool_name \notin {None, ""}
    ELSE d.tool_name = None /\ d.tool_payload = {}

(***************************************************************************)
(* utils/currency.py over word tokens.  The vocabulary of user messages:   *)
(* number tokens (the _AMOUNT pattern), separators, and words (the _TOKEN  *)
(* pattern [A-Za-z$...]+).  No word of the vocabulary holds "to" or "in"   *)
(* followed by a letter of the same word that would normalise, so a match  *)
(* of the code's regular expressions never starts inside a word.           *)
(***************************************************************************)
NumberTokens == {"0", "2", "50", "100"}

ThreeLetterWords == {"usd", "eur", "gbp", "day", "the", "may"}

IsWord(tok) == tok \notin NumberTokens /\ tok \notin {"/", "-", "->"}

\* float(raw.replace(",", "")) of a number token
AmountValue(tok) ==
    CASE tok = "0" -> 0
      [] tok = "2" -> 2
      [] tok = "50" -> 50
      [] tok = "100" -> 100
      [] OTHER -> 0

\* str.upper() of a three-letter word
Upper(tok) ==
    CASE tok = "usd" -> "USD"
      [] tok = "eur" -> "EUR"
      [] tok = "gbp" -> "GBP"
      [] tok = "day" -> "DAY"
      [] tok = "the" -> "THE"
      [] tok = "may" -> "MAY"
      [] OTHER -> None

\* _ALIASES.get(t) for the words that are not three letters long
Alias(tok) ==
    CASE tok \in {"dollar", "dollars", "$"} -> "USD"
      [] tok \in {"euro", "euros"} -> "EUR"
      [] OTHER -> None

normalize_currency_token(tok) ==
    IF tok \in ThreeLetterWords THEN Upper(tok) ELSE Alias(tok)

\* val if val > 0 else None
parse_amount_str(raw) ==
    IF AmountValue(raw) > 0 THEN {AmountValue(raw)} ELSE {}

parse_currency_amount(text) ==
    LET dayN == \E i \in 1..(Len(text) - 1) :
                    text[i] = "day" /\ text[i + 1] \in NumberTokens
        nums == {i \in 1..Len(text) : text[i] \in NumberTokens}
    IN  IF Len(text) = 0 THEN {}
        ELSE IF dayN /\ ~HasTok(text, {"usd", "eur", "gbp", "dollar", "dollars", "euro", "euros", "$"}) THEN {}
        ELSE IF nums = {} THEN {}
        ELSE parse_amount_str(text[Min(nums)])

\* a, b of a match at i of (_TOKEN) sep (_TOKEN), when both normalise and differ
PairAt(text, i) ==
    LET a == normalize_currency_token(text[i])
        b == normalize_currency_token(text[i + 2])
    IN  IF a # None /\ b # None /\ a # b THEN {<<a, b>>} ELSE {}

\* the places where (_TOKEN)\s*sep\s*(_TOKEN) matches, sep one of Seps
PairMatches(text, Seps) ==
    {i \in 1..(Len(text) - 2) :
        IsWord(text[i]) /\ text[i + 1] \in Seps /\ IsWord(text[i + 2])}

\* "x or y" of two optional values: the first unless it is None
OrElse(a, b) == IF a # {} THEN a ELSE b

parse_currency_pair(text) ==
    LET m1 == PairMatches(text, {"to", "in"})
        m2 == PairMatches(text, {"/", "-"})
    IN  OrElse(IF m1 = {} THEN {} ELSE PairAt(text, Min(m1)),
               IF m2 = {} THEN {} ELSE PairAt(text, Min(m2)))

CurrencyQuery(amount, from_ccy, to_ccy) ==
    [amount |-> amount, from_ccy |-> from_ccy, to_ccy |-> to_ccy]

\* amount-before-pair: \bAMOUNT\b\s*(_TOKEN)\s*(?:to|in)\s*(_TOKEN)
QueryAmountFirst(text) ==
    LET m == {i \in 1..(Len(text) - 3) :
                 text[i] \in NumberTokens /\ IsWord(text[i + 1])
                 /\ text[i + 2] \in {"to", "in"} /\ IsWord(text[i + 3])}
        i == Min(m)
    IN  IF m = {} THEN {}
        ELSE {CurrencyQuery(a, p[1], p[2]) :
                 a \in parse_amount_str(text[i]), p \in PairAt(text, i + 1)}

\* pair-before-amount: (_TOKEN)\s*to\s*(_TOKEN)\s*\bAMOUNT\b
QueryPairFirst(text) ==
    LET m == {i \in 1..(Len(text) - 3) :
                 IsWord(text[i]) /\ text[i + 1] = "to" /\ IsWord(text[i + 2])
                 /\ text[i + 3] \in NumberTokens}
        i == Min(m)
    IN  IF m = {} THEN {}
        ELSE {CurrencyQuery(a, p[1], p[2]) :
                 a \in parse_amount_str(text[i + 3]), p \in PairAt(text, i)}

parse_currency_query(text) == OrElse(QueryAmountFirst(text), QueryPairFirst(text))

(***************************************************************************)
(* Whitespace and str.strip()                                              *)
(***************************************************************************)
WhitespaceTokens == {" ", "\n"}

RECURSIVE LStrip(_)
LStrip(text) ==
    IF Len(text) > 0 /\ text[1] \in WhitespaceTokens THEN LStrip(Tail(text)) ELSE text

RECURSIVE RStrip(_)
RStrip(text) ==
    IF Len(text) > 0 /\ text[Len(text)] \in WhitespaceTokens
    THEN RStrip(AllButLast(text)) ELSE text

Strip(text) == RStrip(LStrip(text))

(***************************************************************************)
(* models/message.py                                                       *)
(***************************************************************************)
Message(role, content) == [role |-> role, content |-> content]

(***************************************************************************)
(* utils/history_extractors.py                                             *)
(***************************************************************************)
CurrencyParts(amount, pair) == [amount |-> amount, pair |-> pair]

\* _extract_currency_parts, full being parse_currency_query(text)
extract_parts_after_query(full, text) ==
    IF full # {}
    THEN CurrencyParts({q.amount : q \in full},
                       {<<q.from_ccy, q.to_ccy>> : q \in full})
    ELSE CurrencyParts(parse_currency_amount(text), parse_currency_pair(text))

extract_currency_parts(text) == extract_parts_after_query(parse_currency_query(text), text)

\* the loop for m in reversed(conversation_history), at index i, with the
\* loop's variables found_amount, found_pair and lookback_count in acc
\* found_amount, found_pair and lookback_count after one user message, whose
\* parts are prev
ScanStep(acc, prev, allow) ==
    [amount |-> IF allow /\ acc.amount = {} /\ prev.amount # {} THEN prev.amount
                ELSE acc.amount,
     pair |-> IF acc.pair = {} /\ prev.pair # {} THEN prev.pair ELSE acc.pair,
     count |-> acc.count + 1]

\* the break at the end of the loop body
ScanDone(acc, need_amount, need_pair) ==
    (~need_amount \/ acc.amount # {}) /\ (~need_pair \/ acc.pair # {})

\* the loop for m in reversed(conversation_history), at index i, with the
\* loop's variables found_amount, found_pair and lookback_count in acc
RECURSIVE ScanHistory(_, _, _, _, _, _)
ScanNext(conversation_history, i, acc, need_amount, need_pair, allow) ==
    IF ScanDone(acc, need_amount, need_pair) THEN acc
    ELSE ScanHistory(conversation_history, i - 1, acc, need_amount, need_pair, allow)

ScanHistory(conversation_history, i, acc, need_amount, need_pair, allow) ==
    IF i = 0 THEN acc
    ELSE
      LET m == conversation_history[i]
          text == Strip(m.content)
      IN  IF m.role # "user" \/ text = <<>>
          THEN ScanHistory(conversation_history, i - 1, acc, need_amount, need_pair, allow)
          ELSE IF acc.count + 1 > max_lookback_user_messages THEN acc
          ELSE ScanNext(conversation_history, i,
                        ScanStep(acc, extract_currency_parts(text), allow),
                        need_amount, need_pair, allow)

\* amount and pair with the parts of the history put before those of the message
combine_parts_history_first(now_parts, found) ==
    {CurrencyQuery(a, p[1], p[2]) :
        a \in OrElse(found.amount, now_parts.amount),
        p \in OrElse(found.pair, now_parts.pair)}


\* amount and pair: the query out of the parts of the message and of the history
combine_parts(now_parts, found) ==
    {CurrencyQuery(a, p[1], p[2]) :
        a \in OrElse(now_parts.amount, found.amount),
        p \in OrElse(now_parts.pair, found.pair)}

\* the function, full_now and now_parts being those of the user message
combine_after_parse(full_now, now_parts, conversation_history, allow_amount_from_history) ==
    IF full_now # {} THEN full_now
    ELSE IF now_parts.amount = {} /\ now_parts.pair = {} THEN {}
    ELSE combine_parts(now_parts,
                       ScanHistory(conversation_history, Len(conversation_history),
                                   [amount |-> {}, pair |-> {}, count |-> 0],
                                   now_parts.amount = {}, now_parts.pair = {},
                                   allow_amount_from_history))

combine_currency_query_from_history(user_message, conversation_history, allow_amount_from_history) ==
    combine_after_parse(parse_currency_query(user_message),
                        extract_currency_parts(user_message),
                        conversation_history, allow_amount_from_history)

(***************************************************************************)
(* models/trip_profile.py, models/state.py                                 *)
(***************************************************************************)
TripProfile(destination, start_date, end_date, duration_days) ==
    [destination |-> destination, start_date |-> start_date,
     end_date |-> end_date, duration_days |-> duration_days]

\* State(session_id=...) as constructed at the clock value t
NewState(session_id, t) ==
    [session_id |-> session_id,
     trip_profile |-> TripProfile(None, {}, {}, {}),
     conversation_history |-> <<>>,
     last_intent |-> None,
     primary_intent |-> None,
     turn_count |-> 0,
     pending_missing_info |-> <<>>,
     updated_at |-> t]

(***************************************************************************)
(* core/validator.py                                                       *)
(***************************************************************************)
ValidationResult(ok, missing_info, problems) ==
    [ok |-> ok, missing_info |-> missing_info, problems |-> problems]

has_dates_or_duration(state) ==
    LET trip == state.trip_profile
    IN  trip.duration_days # {} \/ (trip.start_date # {} /\ trip.end_date # {})

\* validate without the check of duration_days
validate_ignoring_duration(intent, state) ==
    LET trip == state.trip_profile
        noDest == IF trip.destination = None THEN <<"destination">> ELSE <<>>
        noDates == IF has_dates_or_duration(state) THEN <<>> ELSE <<"dates_or_duration">>
        missing == IF intent = ITINERARY_PLANNING THEN noDest \o noDates
                   ELSE IF intent \in {WEATHER_QUERY, ATTRACTIONS_RECOMMENDATIONS, PACKING_LIST}
                   THEN noDest
                   ELSE <<>>
    IN  ValidationResult(Len(missing) = 0, missing, <<>>)

validate(intent, state) ==
    LET trip == state.trip_profile
        problems == IF \E d \in trip.duration_days : d <= 0
                    THEN <<"duration_days must be > 0">> ELSE <<>>
        noDest == IF trip.destination = None THEN <<"destination">> ELSE <<>>
        noDates == IF has_dates_or_duration(state) THEN <<>> ELSE <<"dates_or_duration">>
        missing == IF intent = ITINERARY_PLANNING THEN noDest \o noDates
                   ELSE IF intent = WEATHER_QUERY THEN noDest
                   ELSE IF intent \in {ATTRACTIONS_RECOMMENDATIONS, PACKING_LIST} THEN noDest
                   ELSE <<>>
    IN  ValidationResult(Len(missing) = 0 /\ Len(problems) = 0, missing, problems)

(***************************************************************************)
(* utils/weather_rules.py                                                  *)
(***************************************************************************)

\* _MONTH_PATTERN.search(text): a month name, alone or in the tokens "in may", "in january"
mentions_month(text) ==
    HasTok(text, {"january", "february", "march", "april", "may", "june", "july", "august", "september", "october", "november", "december", "in may", "in january"})

is_seasonal_weather_question(text) == HasTok(text, {"usually", "typical", "around this time of year", "on average", "generally"})

is_within_open_meteo_forecast_window(trip) ==
    LET today == 0
        start == IF trip.start_date = {} THEN trip.end_date ELSE trip.start_date
        end == IF trip.end_date = {} THEN start ELSE trip.end_date
    IN  IF trip.start_date = {} /\ trip.end_date = {} THEN TRUE
        ELSE \A s \in start : \A e \in end :
                ~(e < s) /\ ~(e < today)
                /\ ~(s - today > horizon_days)
                /\ ~(e - today > horizon_days)
                /\ ~((e - s) + 1 > horizon_days)

(***************************************************************************)
(* tools/weather_client.py: the date range of get_weather, today being     *)
(* day 0.                                                                  *)
(***************************************************************************)
\* days = (end - start).days + 1, start = trip.start_date or date.today(),
\* end = trip.end_date or start
client_range_days(trip) ==
    LET start == IF trip.start_date = {} THEN {0} ELSE trip.start_date
        end == IF trip.end_date = {} THEN start ELSE trip.end_date
    IN  {(e - s) + 1 : s \in start, e \in end}

\* get_weather goes on to the provider: neither "Invalid date range" nor
\* "Forecast range too long"
client_accepts_range(trip) ==
    \A days \in client_range_days(trip) : ~(days <= 0) /\ ~(days > FORECAST_HORIZON_DAYS)

(***************************************************************************)
(* core/decision_logic.py                                                  *)
(***************************************************************************)
is_numeric_amount(msg) == parse_currency_amount(msg) # {}

\* steps 1 and 2 with the amount taken from the history for either slot
currency_query_amount_always(one_shot, user_message, state) ==
    IF one_shot = {}
       /\ state.pending_missing_info \in {<<"currency_amount">>, <<"currency_pair">>}
    THEN combine_currency_query_from_history(
             user_message, AllButLast(state.conversation_history), TRUE)
    ELSE one_shot

\* steps 1 and 2: the one-shot query, else the query combined with the history
currency_query_or_history(one_shot, user_message, state) ==
    IF one_shot = {}
       /\ state.pending_missing_info \in {<<"currency_amount">>, <<"currency_pair">>}
    THEN combine_currency_query_from_history(
             user_message, AllButLast(state.conversation_history),
             state.pending_missing_info = <<"currency_amount">>)
    ELSE one_shot

\* steps 3 and 4 without the sticky slot of step 3
decide_currency_query_without_sticky(currency_query, user_message, pending) ==
    IF currency_query = {}
    THEN IF parse_currency_pair(user_message) # {}
         THEN Decision(ASK_CLARIFICATION, <<"currency_amount">>, None, {})
         ELSE Decision(ASK_CLARIFICATION, <<"currency_pair">>, None, {})
    ELSE Decision(CALL_TOOL, <<>>, "currency", currency_query)

\* steps 3 and 4: the decision for the query found
decide_currency_query(currency_query, user_message, pending) ==
    IF pending = <<"currency_amount">> /\ currency_query = {}
       /\ ~is_numeric_amount(user_message)
    THEN Decision(ASK_CLARIFICATION, <<"currency_amount">>, None, {})
    ELSE IF currency_query = {}
    THEN IF parse_currency_pair(user_message) # {}
         THEN Decision(ASK_CLARIFICATION, <<"currency_amount">>, None, {})
         ELSE Decision(ASK_CLARIFICATION, <<"currency_pair">>, None, {})
    ELSE Decision(CALL_TOOL, <<>>, "currency", currency_query)

\* the currency branch of decide
decide_currency(user_message, state) ==
    decide_currency_query(
        currency_query_or_history(parse_currency_query(user_message), user_message, state),
        user_message, state.pending_missing_info)

\* the weather branch of decide without the test of the wording
decide_weather_by_window(user_message, state) ==
    IF ~is_within_open_meteo_forecast_window(state.trip_profile)
    THEN Decision(GENERATE_RESPONSE, <<>>, None, {})
    ELSE Decision(CALL_TOOL, <<>>, "weather", {})

\* the weather branch of decide
decide_weather(user_message, state) ==
    IF mentions_month(user_message) \/ is_seasonal_weather_question(user_message)
    THEN Decision(GENERATE_RESPONSE, <<>>, None, {})
    ELSE IF ~is_within_open_meteo_forecast_window(state.trip_profile)
    THEN Decision(GENERATE_RESPONSE, <<>>, None, {})
    ELSE Decision(CALL_TOOL, <<>>, "weather", {})

\* decide asking for the first missing field only
decide_first_missing_only(intent, validation, user_message, state) ==
    IF intent = OUT_OF_SCOPE
    THEN Decision(OUT_OF_SCOPE_RESPONSE, <<>>, None, {})
    ELSE IF intent = CLARIFICATION_NEEDED
    THEN Decision(ASK_CLARIFICATION, <<"goal">>, None, {})
    ELSE IF ~validation.ok
    THEN Decision(ASK_CLARIFICATION, First1(validation.missing_info), None, {})
    ELSE IF intent = WEATHER_QUERY THEN decide_weather(user_message, state)
    ELSE IF intent = CURRENCY_CONVERSION THEN decide_currency(user_message, state)
    ELSE Decision(GENERATE_RESPONSE, <<>>, None, {})

\* decide with the goal routed before the validation is looked at
decide_goal_before_validation(intent, validation, user_message, state) ==
    IF intent = OUT_OF_SCOPE
    THEN Decision(OUT_OF_SCOPE_RESPONSE, <<>>, None, {})
    ELSE IF intent = CLARIFICATION_NEEDED
    THEN Decision(ASK_CLARIFICATION, <<"goal">>, None, {})
    ELSE IF intent = WEATHER_QUERY THEN decide_weather(user_message, state)
    ELSE IF ~validation.ok
    THEN Decision(ASK_CLARIFICATION, validation.missing_info, None, {})
    ELSE IF intent = CURRENCY_CONVERSION THEN decide_currency(user_message, state)
    ELSE Decision(GENERATE_RESPONSE, <<>>, None, {})

decide(intent, validation, user_message, state) ==
    IF intent = OUT_OF_SCOPE
    THEN Decision(OUT_OF_SCOPE_RESPONSE, <<>>, None, {})
    ELSE IF intent = CLARIFICATION_NEEDED
    THEN Decision(ASK_CLARIFICATION, <<"goal">>, None, {})
    ELSE IF ~validation.ok
    THEN Decision(ASK_CLARIFICATION, validation.missing_info, None, {})
    ELSE IF intent = WEATHER_QUERY THEN decide_weather(user_message, state)
    ELSE IF intent = CURRENCY_CONVERSION THEN decide_currency(user_message, state)
    ELSE Decision(GENERATE_RESPONSE, <<>>, None, {})

(***************************************************************************)
(* utils/clarification.py.  The fixed texts of the code are cut into       *)
(* tokens so that the words the code later searches for (a trailing "?",   *)
(* the keywords of _infer_pending_from_assistant, the phrases of the Trust *)
(* Filter) are tokens of their own.                                        *)
(***************************************************************************)
build_clarification_question(missing_info) ==
    IF Len(missing_info) = 0 THEN <<"What details can you share about your trip (destination and ", "date", "s)", "?">>
    ELSE LET first == missing_info[1]
         IN  CASE first = "destination" -> <<"Where", " are you traveling to (city/country)", "?">>
               [] first \in {"dates", "dates_or_duration"} -> <<"What are your travel ", "date", "s (or how many days is the trip)", "?">>
               [] first = "budget" -> <<"What's your ", "budget", " level (low / mid / high)", "?">>
               [] first = "travelers" -> <<"Who", "'s traveling (solo / couple / friends / family, kids yes/no)", "?">>
               [] first = "interests" -> <<"What are your ", "interest", "s (e.g., food, museums, nature, nightlife)", "?">>
               [] first = "pace" -> <<"What ", "pace", " do you prefer (relaxed / balanced / intense)", "?">>
               [] first = "goal" -> <<"What would you like help with: itinerary, attractions, packing, weather, or currency conversion", "?">>
               [] first = "currency_pair" -> <<"Which currencies", " are you converting ", "between", "? (e.g., USD to EUR)", "\n", "Then tell me the ", "amount", " (e.g., 100).">>
               [] first = "currency_amount" -> <<"What ", "amount", " do you want to convert? (e.g., 100)">>
               [] first = "currency_from" -> <<"What is the FROM currency? (e.g., USD)">>
               [] first = "currency_to" -> <<"What is the TO currency? (e.g., EUR)">>
               [] OTHER -> <<"What's one more detail about your trip that matters most (destination, dates, budget, travelers)", "?">>

(***************************************************************************)
(* core/trust_layer.py                                                     *)
(***************************************************************************)
TrustResult(text, reasons) ==
    [text |-> text, flagged |-> Len(reasons) > 0, reasons |-> reasons]

REALTIME_CLAIMS == {"real-time", "live data", "right now", "currently", "as of now",
                    "i just checked", "i checked online", "i looked it up",
                    "from the internet", "according to google"}

looks_like_tool_code(text) == HasTok(text, {"<fence>tool_code", "currency_conversion(", "weather(", "invoke-restmethod"})

\* text.replace(FENCE + "tool_code", "").replace(FENCE, "").strip(), FENCE three backticks
strip_tool_code_fences(text) ==
    Strip(SelectSeq(text, LAMBDA tok : tok \notin {"<fence>tool_code", "<fence>"}))

\* re.sub(p, "based on available info", ...) for every p, then strip()
rewrite_no_realtime_claim(text) ==
    Strip([i \in 1..Len(text) |->
              IF text[i] \in REALTIME_CLAIMS THEN "based on available info" ELSE text[i]])

user_requested_exact_daily(user_message) == HasTok(user_message, {"exact daily", "day-by-day", "each day", "every day", "daily highs"})

user_requested_live(user_message) == HasTok(user_message, {"right now", "live", "currently", "as of now", "exact temperature", "0.1"})

contains_specific_forecast_numbers(text, user_message) ==
    IF HasTok(text, {"typical", "usually", "generally", "on average", "average", "around", "roughly", "seasonal", "often", "between"}) /\ ~user_requested_exact_daily(user_message)
    THEN FALSE
    ELSE HasTok(text, {"25 C", "12 mm", "30 km/h", "highs of 25", "lows of 10"})
         /\ (HasTok(user_message, {"exact", "exact daily", "daily highs", "each day", "day-by-day", "right now", "live", "currently", "today", "tomorrow", "on "}) \/ HasTok(text, {"on ", "tomorrow", "today", "this weekend", "next week"}))

contains_currency_rate_or_conversion(text) == HasTok(text, {"rate of 0.84", "100 USD", "84 EUR", "$100", "converts to 84"})

safe_weather_without_tool(user_message) ==
    IF HasTok(user_message, {"right now", "live", "currently", "today"})
    THEN <<"I can't guarantee a *live* weather reading without calling the weather API. ... or I can give seasonal guidance if you're planning ahead.">>
    ELSE IF HasTok(user_message, {"in may", "in january", "season"})
    THEN <<"I can't provide exact day-by-day numbers that far in advance. ... I'll give seasonal expectations + a packing list.">>
    ELSE <<"I can't fetch an exact forecast for that date ", "right now", " (...up to ~16 days ahead). ... I can give seasonal expectations and packing advice.">>

safe_live_weather_response(has_tool_data) ==
    IF has_tool_data THEN <<"I can't guarantee a *live right-now* temperature reading to 0.1C. ... use a live weather app/station feed.">> ELSE <<"I can't guarantee a *live right-now* weather reading without calling the weather API. ... I can fetch today's forecast from the tool.">>

\* TrustLayer.apply; has_tool_data is tool_data is not None
\* step 4 of apply (line 80): currency numbers without tool data
trust_currency(intent, text, reasons, has_tool_data) ==
    IF intent = CURRENCY_CONVERSION /\ ~has_tool_data
       /\ contains_currency_rate_or_conversion(text)
    THEN TrustResult(<<"I can help convert currency, but I couldn't fetch a live exchange rate ", "right now", ".", "\n", "Please send it like: ", "100 USD", " to EUR (amount + from + to).">>, Append(reasons, "currency_numbers_without_tool"))
    ELSE TrustResult(text, reasons)

\* step 3 of apply left out
trust_weather_unchecked(intent, text, reasons, has_tool_data, user_message) ==
    trust_currency(intent, text, reasons, has_tool_data)

\* step 3 of apply (lines 64-78): weather answers
trust_weather(intent, text, reasons, has_tool_data, user_message) ==
    IF intent # WEATHER_QUERY THEN trust_currency(intent, text, reasons, has_tool_data)
    ELSE IF ~has_tool_data /\ user_requested_exact_daily(user_message)
    THEN trust_currency(intent, safe_weather_without_tool(user_message),
                        Append(reasons, "exact_daily_weather_without_tool"), has_tool_data)
    ELSE IF user_requested_live(user_message)
    THEN trust_currency(intent, safe_live_weather_response(has_tool_data),
                        Append(reasons, "live_weather_request"), has_tool_data)
    ELSE IF ~has_tool_data /\ contains_specific_forecast_numbers(text, user_message)
    THEN trust_currency(intent, safe_weather_without_tool(user_message),
                        Append(reasons, "weather_numbers_without_tool"), has_tool_data)
    ELSE trust_currency(intent, text, reasons, has_tool_data)

\* step 2 of apply (lines 57-62): real-time claims
trust_realtime(intent, text, reasons, has_tool_data, user_message) ==
    IF HasTok(text, REALTIME_CLAIMS)
       /\ ~(intent = WEATHER_QUERY /\ user_requested_live(user_message))
    THEN trust_weather(intent, rewrite_no_realtime_claim(text),
                       Append(reasons, "realtime_claim"), has_tool_data, user_message)
    ELSE trust_weather(intent, text, reasons, has_tool_data, user_message)

\* step 1 of apply (lines 47-55), text being the stripped assistant text
trust_tool_code(intent, text, has_tool_data, user_message) ==
    IF text = <<>> THEN TrustResult(text, <<>>)
    ELSE IF looks_like_tool_code(text)
    THEN trust_realtime(intent, strip_tool_code_fences(text), <<"tool_code_leak">>,
                        has_tool_data, user_message)
    ELSE trust_realtime(intent, text, <<>>, has_tool_data, user_message)

\* TrustLayer.apply; has_tool_data is tool_data is not None
trust_apply(intent, assistant_text, has_tool_data, user_message) ==
    trust_tool_code(intent, Strip(assistant_text), has_tool_data, user_message)

(***************************************************************************)
(* llm/gemini_client.py.  The outcome o of the external service is         *)
(* [kind |-> "error"] (exception or timeout) or [kind |-> "text", text].   *)
(* A result of a call that may raise is [raised, value].                   *)
(***************************************************************************)
Raise == [raised |-> TRUE, value |-> <<>>]
Return(v) == [raised |-> FALSE, value |-> v]

ServiceError == [kind |-> "error", text |-> <<>>]
ServiceText(text) == [kind |-> "text", text |-> text]

generate_text(o) ==
    IF o.kind = "error" THEN Raise             \* RuntimeError("Gemini API call failed")
    ELSE IF o.text = <<>> THEN Raise           \* RuntimeError("Gemini returned an empty response.")
    ELSE Return(Strip(o.text))

(***************************************************************************)
(* llm/response_generator.py                                               *)
(***************************************************************************)

\* what follows the first line of text
RECURSIVE AfterLine(_)
AfterLine(text) ==
    IF text = <<>> THEN <<>>
    ELSE IF text[1] = "\n" THEN Tail(text)
    ELSE AfterLine(Tail(text))

RECURSIVE DropLeadingFiller(_)
DropLeadingFiller(text) ==
    IF text = <<>> THEN <<>>
    ELSE IF text[1] \in WhitespaceTokens THEN DropLeadingFiller(Tail(text))
    ELSE IF text[1] \in {"okay", "sure", "i will", "the user", "here's the weather"} THEN DropLeadingFiller(AfterLine(text))
    ELSE text

\* out if out else text.strip()
clean_or_stripped(out, text) == IF out # <<>> THEN out ELSE Strip(text)

clean_llm_output(text) ==
    IF text = <<>> THEN text
    ELSE clean_or_stripped(Strip(DropLeadingFiller(Strip(text))), text)

\* ResponseGenerator._looks_like_tool_code
generator_looks_like_tool_code(text) ==
    HasTok(text, {"<fence>tool_code", "currency_conversion(", "weather("})

format_currency_from_tool == <<"Based on data from DATE, ", "100 USD", " ", "converts to 84", " EUR at a ", "rate of 0.84", ".">>

\* ResponseGenerator.generate; o is the outcome of the generation service
\* lines 181-190 of generate: the reply of the service, cleaned
generate_cleaned(cleaned) ==
    IF generator_looks_like_tool_code(cleaned) THEN strip_tool_code_fences(cleaned)
    ELSE cleaned

\* lines 171-190 of generate, r being what generate_text did
generate_from(r) ==
    IF r.raised THEN Raise ELSE Return(generate_cleaned(clean_llm_output(r.value)))

\* generate without its first branch: every text comes from the service
generate_without_formatter(intent, has_tool_data, o) == generate_from(generate_text(o))


\* ResponseGenerator.generate; o is the outcome of the generation service
generate(intent, has_tool_data, o) ==
    IF intent = CURRENCY_CONVERSION /\ has_tool_data
    THEN Return(format_currency_from_tool)
    ELSE generate_from(generate_text(o))

\* whether generate calls the generation service
generate_calls_service(intent, has_tool_data) ==
    ~(intent = CURRENCY_CONVERSION /\ has_tool_data)

(***************************************************************************)
(* core/flow_controller.py: _infer_pending_from_assistant                  *)
(***************************************************************************)
EndsWithQuestionMark(text) ==
    LET t == RStrip(text) IN Len(t) > 0 /\ t[Len(t)] = "?"

infer_pending_from_assistant(assistant_text, intent, state) ==
    LET missing == validate(intent, state).missing_info
        has(S) == HasTok(assistant_text, S)
    IN  IF assistant_text = <<>> \/ ~EndsWithQuestionMark(assistant_text) THEN <<>>
        ELSE IF intent \in GOAL_INTENTS /\ intent # CURRENCY_CONVERSION /\ Len(missing) > 0
        THEN First1(missing)
        ELSE IF intent = CURRENCY_CONVERSION /\ has({"between", "Which currencies"})
        THEN <<"currency_pair">>
        ELSE IF intent = CURRENCY_CONVERSION /\ has({"amount", "how much"})
        THEN <<"currency_amount">>
        ELSE IF intent = CURRENCY_CONVERSION /\ has({"from"}) /\ has({"currency"})
        THEN <<"currency_from">>
        ELSE IF intent = CURRENCY_CONVERSION /\ has({"to"}) /\ has({"currency"})
        THEN <<"currency_to">>
        ELSE IF has({"interest"}) THEN <<"interests">>
        ELSE IF has({"budget"}) THEN <<"budget">>
        ELSE IF has({"who", "Who", "traveling"}) THEN <<"travelers">>
        ELSE IF has({"pace"}) THEN <<"pace">>
        ELSE IF has({"month"}) THEN <<"dates_or_duration">>
        ELSE IF has({"date", "when"}) THEN <<"dates_or_duration">>
        ELSE IF has({"where", "Where", "city", "country"}) THEN <<"destination">>
        ELSE <<>>

(***************************************************************************)
(* core/fallback_handler.py                                                *)
(***************************************************************************)
FallbackResult(message, used_llm, pending_missing_info, resolved_intent) ==
    [message |-> message, used_llm |-> used_llm,
     pending_missing_info |-> pending_missing_info,
     resolved_intent |-> resolved_intent]

\* the goal recover settles on (None when it returns before choosing one)
recover_goal(state, intent_for_flow) ==
    LET active_goal == IF state.last_intent \in GOAL_INTENTS THEN state.last_intent ELSE None
    IN  IF intent_for_flow \in GOAL_INTENTS THEN intent_for_flow ELSE active_goal

\* whether recover reaches its last step, the call of the generation service
recover_calls_service(state, intent_for_flow) ==
    /\ state.pending_missing_info = <<>>
    /\ recover_goal(state, intent_for_flow) # None
    /\ validate(recover_goal(state, intent_for_flow), state).ok

\* recover without its first step, the question for the slot outstanding
recover_without_pending_step(state, intent_for_flow, o) ==
    LET goal == recover_goal(state, intent_for_flow)
        validation == validate(goal, state)
        r == generate_text(o)
        text == Strip(r.value)
    IN  IF goal = None
        THEN Return(FallbackResult(<<"What would you like help with: itinerary, attractions, packing, weather, or currency conversion", "?">>, FALSE, <<"goal">>, None))
        ELSE IF ~validation.ok
        THEN Return(FallbackResult(build_clarification_question(First1(validation.missing_info)),
                                   FALSE, First1(validation.missing_info), goal))
        ELSE IF r.raised THEN Raise
        ELSE IF text = <<>>
        THEN Return(FallbackResult(<<"I can help with itineraries, attractions, packing, weather, or currency conversion. What would you like to do next", "?">>, FALSE, <<"goal">>, goal))
        ELSE Return(FallbackResult(text, TRUE, <<>>, goal))

\* FallbackHandler.recover; o is the outcome of the generation service
recover(state, intent_for_flow, o) ==
    LET pending == First1(state.pending_missing_info)
        goal == recover_goal(state, intent_for_flow)
        validation == validate(goal, state)
        r == generate_text(o)
        text == Strip(r.value)
    IN  IF state.pending_missing_info # <<>>
        THEN Return(FallbackResult(build_clarification_question(pending), FALSE, pending, None))
        ELSE IF goal = None
        THEN Return(FallbackResult(<<"What would you like help with: itinerary, attractions, packing, weather, or currency conversion", "?">>, FALSE, <<"goal">>, None))
        ELSE IF ~validation.ok
        THEN Return(FallbackResult(build_clarification_question(First1(validation.missing_info)),
                                   FALSE, First1(validation.missing_info), goal))
        ELSE IF r.raised THEN Raise
        ELSE IF text = <<>>
        THEN Return(FallbackResult(<<"I can help with itineraries, attractions, packing, weather, or currency conversion. What would you like to do next", "?">>, FALSE, <<"goal">>, goal))
        ELSE Return(FallbackResult(text, TRUE, <<>>, goal))

(***************************************************************************)
(* llm/intent_classifier.py.  The reply of the intent service is           *)
(* [kind |-> "error"], [kind |-> "empty"], [kind |-> "garbage"] (text from *)
(* which no JSON value can be recovered), [kind |-> "not_object"] (a JSON  *)
(* list, string or number) or [kind |-> "json", intent, updates,           *)
(* missing_info], the object _try_parse_json recovers.                     *)
(***************************************************************************)
IntentResult(intent, extracted_updates, missing_info) ==
    [intent |-> intent, extracted_updates |-> extracted_updates,
     missing_info |-> missing_info]

\* the update dictionary {}: no key present
NoUpdates == [destination |-> None, start_date |-> None, end_date |-> None,
              duration_days |-> {}]

IntentReply(kind, intent, updates) ==
    [kind |-> kind, intent |-> intent, updates |-> updates, missing_info |-> <<>>]

classifier_fallback ==
    IntentResult(CLARIFICATION_NEEDED, NoUpdates, <<"destination", "dates_or_duration">>)

looks_like_generic_help(text) ==
    text \in {<<"help">>, <<"help", "me">>, <<"please", "help">>}

looks_like_amount_only(text) == Len(text) = 1 /\ text[1] \in NumberTokens

looks_like_currency_pair(text) ==
    \E i \in 1..(Len(text) - 2) :
        /\ text[i] \in ThreeLetterWords
        /\ text[i + 1] \in {"to", "->", "-", "/"}
        /\ text[i + 2] \in ThreeLetterWords

looks_like_itinerary_continue(text) ==
    \/ HasTok(text, {"continue", "resume", "itinerary", "plan", "schedule"})
    \/ \E i \in 1..(Len(text) - 1) : text[i] = "day"       \* the marker "day "

\* the override for the slot currency_amount alone
sticky_intent_for_amount_only(intent, user_message, pending_missing_info) ==
    LET is_amount == looks_like_amount_only(user_message)
                     \/ HasTok(user_message, {"$", "usd", "eur", "euro", "euros"})
        is_pair == looks_like_currency_pair(user_message)
    IN  IF pending_missing_info # <<"currency_amount">> THEN intent
        ELSE IF looks_like_itinerary_continue(user_message)
                /\ ~is_amount /\ ~is_pair THEN intent
        ELSE CURRENCY_CONVERSION

\* the intent after the pending-slot override of classify
sticky_intent(intent, user_message, pending_missing_info) ==
    LET pending == pending_missing_info[1]
        is_amount == looks_like_amount_only(user_message)
                     \/ HasTok(user_message, {"$", "usd", "eur", "euro", "euros"})
        is_pair == looks_like_currency_pair(user_message)
    IN  IF Len(pending_missing_info) = 0 THEN intent
        ELSE IF pending \notin {"currency_pair", "currency_amount",
                                "currency_from", "currency_to"} THEN intent
        ELSE IF pending = "currency_amount"
                /\ looks_like_itinerary_continue(user_message)
                /\ ~is_amount /\ ~is_pair THEN intent
        ELSE CURRENCY_CONVERSION

\* the missing_info after the wrong-type follow-up overrides of classify
sticky_missing_info(missing_info, user_message, pending_missing_info) ==
    LET pending == pending_missing_info[1]
    IN  IF Len(pending_missing_info) = 0 THEN missing_info
        ELSE IF pending = "currency_amount" /\ looks_like_currency_pair(user_message)
        THEN <<"currency_amount">>
        ELSE IF pending = "currency_pair" /\ looks_like_amount_only(user_message)
        THEN <<"currency_pair">>
        ELSE missing_info

\* classify with every failure of the call answered by the fallback result
classify_swallowing_failure(user_message, pending_missing_info, o) ==
    Return(classifier_fallback)


\* IntentClassifier.classify; o is the reply of the intent service
classify(user_message, pending_missing_info, o) ==
    LET intent1 == sticky_intent(o.intent, user_message, pending_missing_info)
        missing1 == sticky_missing_info(o.missing_info, user_message, pending_missing_info)
        help == intent1 = OUT_OF_SCOPE /\ looks_like_generic_help(user_message)
    IN  IF o.kind \in {"error", "empty"} THEN Raise      \* generate_text raises
        ELSE IF o.kind = "garbage" THEN Return(classifier_fallback)
        ELSE IF o.kind = "not_object" THEN Raise         \* parsed.get: AttributeError
        ELSE IF o.intent \notin Intent THEN Return(classifier_fallback)
        ELSE IF help
        THEN Return(IntentResult(CLARIFICATION_NEEDED, o.updates, <<>>))
        ELSE Return(IntentResult(intent1, o.updates, missing1))

(***************************************************************************)
(* models/trip_profile.py: apply_updates.  A date of an update is None, a  *)
(* blank string, a string that is no ISO date, or an ISO date.             *)
(***************************************************************************)

\* date.fromisoformat(s) as a day number, today being day 0
fromisoformat(str) ==
    CASE str = "today+1" -> 1
      [] str = "today+3" -> 3
      [] str = "today+20" -> 20
      [] str = "today-40" -> -40
      [] str = "today-10" -> -10
      [] str = "leap-02-01" -> -400
      [] str = "leap-02-29" -> -372
      [] OTHER -> 0

\* the date field after one date key of the update; raised on ValueError
apply_date(old, str) ==
    IF str = None \/ str \in {"", " "} THEN [raised |-> FALSE, value |-> old]
    ELSE IF str \notin {"today+1", "today+3", "today+20", "today-40", "today-10", "leap-02-01", "leap-02-29"} THEN [raised |-> TRUE, value |-> old]
    ELSE [raised |-> FALSE, value |-> {fromisoformat(str)}]

\* TripProfile.apply_updates: the profile it leaves behind, and whether it raised
apply_updates(trip, updates) ==
    LET destination == IF updates.destination = None \/ updates.destination \in {"", " "}
                       THEN trip.destination ELSE updates.destination
        sd == apply_date(trip.start_date, updates.start_date)
        ed == apply_date(trip.end_date, updates.end_date)
        duration == IF updates.duration_days = {} THEN trip.duration_days
                    ELSE updates.duration_days
    IN  IF sd.raised
        THEN [raised |-> TRUE,
              value |-> TripProfile(destination, trip.start_date, trip.end_date,
                                    trip.duration_days)]
        ELSE IF ed.raised
        THEN [raised |-> TRUE,
              value |-> TripProfile(destination, sd.value, trip.end_date,
                                    trip.duration_days)]
        ELSE [raised |-> FALSE,
              value |-> TripProfile(destination, sd.value, ed.value, duration)]

\* the loop without the test "cleaned not in self.interests"
RECURSIVE merge_list_appending(_, _)
merge_list_appending(existing, entries) ==
    IF entries = <<>> THEN existing
    ELSE merge_list_appending(IF Strip(Head(entries)) # <<>>
                              THEN Append(existing, Strip(Head(entries)))
                              ELSE existing,
                              Tail(entries))


\* lines 60-66 and 68-74 of apply_updates: the list after the loop over the
\* entries of the update.  An entry is a text; an entry that is not a str
\* is skipped as a blank one is.
RECURSIVE merge_list(_, _)
merge_list(existing, entries) ==
    IF entries = <<>> THEN existing
    ELSE merge_list(IF Strip(Head(entries)) # <<>>
                       /\ ~\E i \in 1..Len(existing) : existing[i] = Strip(Head(entries))
                    THEN Append(existing, Strip(Head(entries)))
                    ELSE existing,
                    Tail(entries))

(***************************************************************************)
(* core/state_manager.py.  A world w is [store, heap]: the dictionary      *)
(* _states and the State objects it or a worker refers to.                 *)
(***************************************************************************)
World(st, hp) == [store |-> st, heap |-> hp]

\* the address of the next State object
NewRef(w) == Len(w.heap) + 1

\* get_or_create: the world it leaves and the State (address) it returns
get_or_create(w, session_id, t) ==
    IF w.store[session_id] # 0
    THEN [w |-> w, ref |-> w.store[session_id]]
    ELSE [w |-> World([w.store EXCEPT ![session_id] = NewRef(w)],
                      Append(w.heap, NewState(session_id, t))),
          ref |-> NewRef(w)]

\* add_message keeping the first messages of the history, not the last
append_message_keep_oldest(g, role, content, t) ==
    World(g.w.store,
          [g.w.heap EXCEPT ![g.ref] =
              [@ EXCEPT !.conversation_history =
                            SubSeq(Append(@, Message(role, content)), 1,
                                   IF Len(@) + 1 <= MaxHistory THEN Len(@) + 1 ELSE MaxHistory),
                        !.updated_at = t]])


\* lines 32-38 of add_message, g being what get_or_create returned
append_message(g, role, content, t) ==
    World(g.w.store,
          [g.w.heap EXCEPT ![g.ref] =
              [@ EXCEPT !.conversation_history =
                            LastN(Append(@, Message(role, content)), MaxHistory),
                        !.updated_at = t]])

add_message(w, session_id, role, content, t) ==
    append_message(get_or_create(w, session_id, t), role, content, t)

increment_turn(state, t) ==
    [state EXCEPT !.turn_count = state.turn_count + 1, !.updated_at = t]

\* the sessions a sweep would delete if a session as old as the time-to-live
\* counted as expired
expired_sessions_at_ttl(w, t) ==
    {sid \in DOMAIN w.store :
        w.store[sid] # 0 /\ (t - w.heap[w.store[sid]].updated_at) >= session_ttl_minutes}


\* the session ids cleanup_expired deletes at the clock value t
expired_sessions(w, t) ==
    {sid \in DOMAIN w.store :
        w.store[sid] # 0 /\ (t - w.heap[w.store[sid]].updated_at) > session_ttl_minutes}

\* what cleanup_expired returns: len(to_delete)
cleanup_expired_count(w, t) == Cardinality(expired_sessions(w, t))


cleanup_expired(w, t) ==
    World([sid \in DOMAIN w.store |->
              IF sid \in expired_sessions(w, t) THEN 0 ELSE w.store[sid]],
          w.heap)

(***************************************************************************)
(* core/flow_controller.py: _guardrail_roll_month_without_year_forward.    *)
(* The date universe holds two full-month ranges: [today-40, today-10],    *)
(* and [today-400, today-372], the February of a leap year, whose last day *)
(* is a 29 February.                                                       *)
(***************************************************************************)
looks_like_full_month_range(start_date, end_date) ==
    \/ start_date = -40 /\ end_date = -10
    \/ start_date = -400 /\ end_date = -372

\* d.replace(year=d.year + 1) raises ValueError: d is a 29 February
replace_year_raises(d) == d = -372

guardrail_roll_month_without_year_forward(user_message, trip) ==
    IF ~(mentions_month(user_message) /\ ~HasTok(user_message, {"2026"})) THEN trip
    ELSE IF trip.start_date = {} \/ trip.end_date = {} THEN trip
    ELSE IF ~\E sd \in trip.start_date : \E ed \in trip.end_date :
                 looks_like_full_month_range(sd, ed) /\ ed < 0
    THEN trip
    \* lines 139-148: start_date is assigned, end_date.replace raises, and
    \* the except clause clears both dates
    ELSE IF \E d \in trip.start_date \cup trip.end_date : replace_year_raises(d)
    THEN [trip EXCEPT !.start_date = {}, !.end_date = {}]
    ELSE [trip EXCEPT !.start_date = {d + 365 : d \in trip.start_date},
                      !.end_date = {d + 365 : d \in trip.end_date}]

(***************************************************************************)
(* core/flow_controller.py: _execute_decision.  tool is the outcome of the *)
(* tool collaborator ("ok", "fail": ok=False, "raise": an exception that   *)
(* the client does not catch), o the outcome of the generation service.    *)
(* The result is [raised, value: the text, state: the State afterwards].   *)
(***************************************************************************)
ExecResult(raised, text, state) == [raised |-> raised, value |-> text, state |-> state]

\* the tool returned ok and last_intent is left as the turn set it
execute_tool_ok_without_restore(decision, state, intent, user_message, gen) ==
    IF gen.raised THEN ExecResult(TRUE, <<>>, state)
    ELSE ExecResult(FALSE, trust_apply(intent, gen.value, TRUE, user_message).text, state)


\* lines 333-349 and 371-388: the tool returned ok; gen is what generate did
execute_tool_ok(decision, state, intent, user_message, gen) ==
    IF gen.raised THEN ExecResult(TRUE, <<>>, state)
    ELSE ExecResult(FALSE, trust_apply(intent, gen.value, TRUE, user_message).text,
                    IF decision.tool_name = "currency" /\ state.primary_intent # None
                    THEN [state EXCEPT !.last_intent = state.primary_intent]
                    ELSE state)

execute_tool(decision, state, intent, user_message, tool, o) ==
    IF decision.tool_name \notin {"weather", "currency"}
    THEN ExecResult(FALSE, <<"I can't run that tool ", "right now", ". What would you like to do next", "?">>, state)
    ELSE IF decision.tool_name = "currency" /\ decision.tool_payload = {}
    THEN ExecResult(FALSE, <<"To convert currency, tell me something like: ", "100 USD", " to EUR.">>, state)
    ELSE IF tool = "raise" THEN ExecResult(TRUE, <<>>, state)
    ELSE IF tool = "fail"
    THEN ExecResult(FALSE, IF decision.tool_name = "weather" THEN <<"I couldn't fetch weather info ", "right now", ". If you tell me your dates (or month), I can still give general seasonal packing tips.">>
                           ELSE <<"I couldn't fetch the exchange rate ", "right now", ". Try again in a moment, or share the currencies in the format ", "100 USD", " to EUR.">>, state)
    ELSE execute_tool_ok(decision, state, intent, user_message, generate(intent, TRUE, o))

\* lines 405-410: the default branch; gen is what generate did
execute_generate(state, gen) ==
    IF gen.raised THEN ExecResult(TRUE, <<>>, state) ELSE ExecResult(FALSE, gen.value, state)

execute_decision(decision, state, intent, user_message, tool, o) ==
    IF decision.action = OUT_OF_SCOPE_RESPONSE THEN ExecResult(FALSE, <<"I can help with travel planning only (itineraries, attractions, packing, weather, currency conversion). What would you like to do", "?">>, state)
    ELSE IF decision.action = ASK_CLARIFICATION
    THEN ExecResult(FALSE, build_clarification_question(decision.missing_info), state)
    ELSE IF decision.action = CALL_TOOL
    THEN execute_tool(decision, state, intent, user_message, tool, o)
    ELSE execute_generate(state, generate(intent, FALSE, o))

(***************************************************************************)
(* core/flow_controller.py: handle_turn, cut at the calls that block: the  *)
(* two halves of get_or_create (line 159), the wait for the intent service *)
(* (164), and the wait for the tool and the generation service (263-289).  *)
(* Each piece maps a world w and the locals l of the worker to the world   *)
(* and the locals it leaves.                                               *)
(***************************************************************************)
Step(w, l) == [w |-> w, l |-> l]

\* the outcome recorded for a collaborator that a turn does not call
NotCalled == [kind |-> "none", text |-> <<>>]

InitLocals ==
    [pc |-> "idle", calls |-> 0, user_message |-> <<>>, found |-> 0, ref |-> 0,
     prev_intent |-> None, prev_pending |-> <<>>, intent_for_flow |-> None,
     decision |-> NoDecision, outcome |-> "none", assistant_text |-> <<>>,
     recovered |-> FALSE, supplied_pair |-> {},
     prev_supplied |-> {}, swept |-> FALSE, started_at |-> 0,
     reply |-> NotCalled, tool |-> "none", gen |-> NotCalled, rec |-> NotCalled,
     generated |-> FALSE,  \* the reply is text of the generation service
     filtered |-> FALSE,   \* TrustLayer.apply was called on the reply
     service_calls |-> 0,  \* calls of the generation service after the decision
     recoveries |-> 0,     \* calls of FallbackHandler.recover
     exec_failed |-> FALSE,  \* _execute_decision raised or returned blank text
     unstructured |-> FALSE,  \* the intent service replied, with no valid answer
     recover_pending |-> <<>>,  \* state.pending_missing_info as recover was called
     convert_args |-> {},  \* amount, from_ccy, to_ccy of the call of convert
     raw_intent |-> None,  \* the intent of the reply of the intent service
     intent_failed |-> FALSE,  \* the call of the intent service failed
     fallback_message |-> <<>>]  \* the message recover returned

\* line 159, first half: self._states.get(session_id)
TurnLookup(w, l, session_id, user_message, t) ==
    Step(w, [l EXCEPT !.pc = "get_or_create", !.calls = l.calls + 1,
                      !.user_message = user_message, !.found = w.store[session_id],
                      !.ref = 0, !.prev_intent = None, !.prev_pending = <<>>,
                      !.intent_for_flow = None, !.decision = NoDecision,
                      !.outcome = "none", !.assistant_text = <<>>,
                      !.recovered = FALSE,
                      !.prev_supplied = l.supplied_pair, !.swept = FALSE,
                      !.started_at = t,
                      !.reply = NotCalled, !.tool = "none", !.gen = NotCalled,
                      !.rec = NotCalled, !.generated = FALSE, !.filtered = FALSE,
                      !.service_calls = 0, !.recoveries = 0,
                      !.exec_failed = FALSE, !.fallback_message = <<>>,
                      !.unstructured = FALSE, !.recover_pending = <<>>,
                      !.convert_args = {}, !.raw_intent = None,
                      !.intent_failed = FALSE])

\* line 159, second half, and lines 160-163: the State is constructed and
\* stored if the lookup found none; prev_intent and prev_pending are read
TurnStart(w, l, session_id, t) ==
    LET w1 == IF l.found # 0 THEN w
              ELSE World([w.store EXCEPT ![session_id] = NewRef(w)],
                         Append(w.heap, NewState(session_id, t)))
        ref == IF l.found # 0 THEN l.found ELSE NewRef(w)
        state == w1.heap[ref]
    IN  Step(w1, [l EXCEPT !.pc = "classify", !.ref = ref,
                           !.prev_intent = state.last_intent,
                           !.prev_pending = state.pending_missing_info])

\* lines 175-187: the goal the turn is routed by, and the flow memory
resolve_intent_for_flow(intent, prev_intent) ==
    LET active_goal == IF prev_intent \in GOAL_INTENTS THEN prev_intent ELSE None
    IN  IF intent # CONSTRAINTS_UPDATE THEN intent
        ELSE IF active_goal # None THEN active_goal ELSE CLARIFICATION_NEEDED

\* the bookkeeping without its test for a goal intent
remember_any_intent(state, intent_for_flow) ==
    IF intent_for_flow # CURRENCY_CONVERSION
    THEN [state EXCEPT !.last_intent = intent_for_flow, !.primary_intent = intent_for_flow]
    ELSE [state EXCEPT !.last_intent = intent_for_flow]


remember_intent(state, intent_for_flow) ==
    IF intent_for_flow \notin GOAL_INTENTS THEN state
    ELSE IF intent_for_flow # CURRENCY_CONVERSION
    THEN [state EXCEPT !.last_intent = intent_for_flow, !.primary_intent = intent_for_flow]
    ELSE [state EXCEPT !.last_intent = intent_for_flow]

\* lines 231-238 with the slice [:1] left out
pending_without_slice(decision, prev_pending, intent_for_flow) ==
    IF decision.action = ASK_CLARIFICATION THEN decision.missing_info
    ELSE IF prev_pending = <<"currency_amount">> /\ intent_for_flow # CURRENCY_CONVERSION
    THEN prev_pending
    ELSE <<>>

\* lines 231-238 with the carried-over slot left out
pending_without_carry(decision, prev_pending, intent_for_flow) ==
    IF decision.action = ASK_CLARIFICATION THEN First1(decision.missing_info)
    ELSE <<>>

\* lines 231-238: the pending slot after the decision
pending_after_decision(decision, prev_pending, intent_for_flow) ==
    IF decision.action = ASK_CLARIFICATION THEN First1(decision.missing_info)
    ELSE IF prev_pending = <<"currency_amount">> /\ intent_for_flow # CURRENCY_CONVERSION
    THEN prev_pending
    ELSE <<>>

\* lines 231-261: the pending slot is set from the decision; execution is next
TurnDecided(w, l, intent_for_flow, state, decision) ==
    Step(World(w.store,
               [w.heap EXCEPT ![l.ref] =
                   [state EXCEPT !.pending_missing_info =
                       pending_after_decision(decision, l.prev_pending, intent_for_flow)]]),
         [l EXCEPT !.pc = "execute", !.intent_for_flow = intent_for_flow,
                   !.decision = decision])

\* lines 183-192: flow memory, turn count, validation and decision
TurnRouted(w, l, intent_for_flow, state, t) ==
    TurnDecided(w, l, intent_for_flow, state,
                decide(intent_for_flow, validate(intent_for_flow, state),
                       l.user_message, state))

\* lines 172-189, au being what apply_updates did to the trip profile
TurnUpdated(w, l, intent_for_flow, au, t) ==
    IF au.raised
    THEN Step(World(w.store, [w.heap EXCEPT ![l.ref].trip_profile = au.value]),
              [l EXCEPT !.pc = "done", !.outcome = "raised"])
    ELSE TurnRouted(w, l, intent_for_flow,
                    increment_turn(
                        remember_intent(
                            [w.heap[l.ref] EXCEPT !.trip_profile =
                                guardrail_roll_month_without_year_forward(
                                    l.user_message, au.value)],
                            intent_for_flow), t),
                    t)

\* lines 170-180, w being the world after the user message was added
TurnUserMessageAdded(w, l, intent_result, t) ==
    TurnUpdated(w, l, resolve_intent_for_flow(intent_result.intent, l.prev_intent),
                apply_updates(w.heap[l.ref].trip_profile, intent_result.extracted_updates),
                t)

\* lines 164-170, c being what classify did
TurnClassified(w, l, session_id, c, t) ==
    IF c.raised THEN Step(w, [l EXCEPT !.pc = "done", !.outcome = "raised"])
    ELSE TurnUserMessageAdded(add_message(w, session_id, "user", l.user_message, t),
                              l, c.value, t)

\* lines 164-261: from the reply of the intent service to the decision
TurnAfterClassify(w, l, session_id, reply, t) ==
    TurnClassified(w, [l EXCEPT !.unstructured =
                                    \/ reply.kind \in {"empty", "garbage", "not_object"}
                                    \/ reply.kind = "json" /\ reply.intent \notin Intent,
                                !.raw_intent =
                                    IF reply.kind = "json" THEN reply.intent ELSE None,
                                !.intent_failed = reply.kind = "error"],
                   session_id, classify(l.user_message, l.prev_pending, reply), t)

\* which collaborators lines 263-289 call, given the decision and the outcomes so far
\* the arguments re-parsed from the user message
convert_arguments_reparsed(decision, user_message) == parse_currency_query(user_message)

\* lines 358-372: amount, from_ccy and to_ccy of the call of convert are read
\* from decision.tool_payload
convert_arguments(decision, user_message) == decision.tool_payload

turn_calls_tool(decision) ==
    /\ decision.action = CALL_TOOL
    /\ decision.tool_name \in {"weather", "currency"}
    /\ ~(decision.tool_name = "currency" /\ decision.tool_payload = {})

turn_calls_generation(decision, intent, tool) ==
    \/ decision.action = GENERATE_RESPONSE
    \/ turn_calls_tool(decision) /\ tool = "ok" /\ generate_calls_service(intent, TRUE)

\* "if not assistant_text or not assistant_text.strip(): raise RuntimeError"
execution_failed(ex) == ex.raised \/ Strip(ex.value) = <<>>

\* lines 273-289: the State after recovery returned fallback
apply_fallback(state, fallback, intent_for_flow) ==
    [state EXCEPT
        !.pending_missing_info =
            IF fallback.pending_missing_info # <<>>
            THEN First1(fallback.pending_missing_info)
            ELSE infer_pending_from_assistant(fallback.message, intent_for_flow, state),
        !.last_intent =
            IF fallback.resolved_intent \in GOAL_INTENTS THEN fallback.resolved_intent
            ELSE @]

\* lines 306-312: the slot inferred from the text, and the assistant message
TurnReplied(w, l, session_id, state, text, recovered, t) ==
    Step(add_message(
             World(w.store,
                   [w.heap EXCEPT ![l.ref] =
                       IF l.decision.action = GENERATE_RESPONSE
                          /\ state.pending_missing_info = <<>>
                       THEN [state EXCEPT !.pending_missing_info =
                                infer_pending_from_assistant(text, l.intent_for_flow, state)]
                       ELSE state]),
             session_id, "assistant", text, t),
         [l EXCEPT !.pc = "done", !.outcome = "ok", !.recovered = recovered,
                   !.assistant_text = text])

\* lines 291-303: the Trust Filter on every reply that no tool produced
TurnTrust(w, l, session_id, state, text, recovered, t) ==
    TurnReplied(w, [l EXCEPT !.filtered = @ \/ l.decision.action # CALL_TOOL],
                session_id, state,
                IF l.decision.action # CALL_TOOL
                THEN trust_apply(l.intent_for_flow, text, FALSE, l.user_message).text
                ELSE text,
                recovered, t)

\* lines 273-289, fb being what recover did: recover is not inside a try
TurnRecovered(w, l, session_id, fb, t) ==
    IF fb.raised
    THEN Step(w, [l EXCEPT !.pc = "done", !.outcome = "raised", !.recovered = TRUE])
    ELSE TurnTrust(w, [l EXCEPT !.generated = fb.value.used_llm, !.filtered = FALSE,
                                !.fallback_message = fb.value.message],
                   session_id,
                   apply_fallback(w.heap[l.ref], fb.value, l.intent_for_flow),
                   fb.value.message, TRUE, t)

\* lines 263-272, ex being what _execute_decision did
TurnExecuted(w, l, session_id, ex, rec, t) ==
    IF execution_failed(ex)
    THEN TurnRecovered(w, [l EXCEPT !.exec_failed = TRUE, !.recoveries = @ + 1,
                                    !.recover_pending = w.heap[l.ref].pending_missing_info,
                                    !.service_calls =
                                        IF recover_calls_service(w.heap[l.ref], l.intent_for_flow)
                                        THEN @ + 1 ELSE @],
                       session_id, recover(w.heap[l.ref], l.intent_for_flow, rec), t)
    ELSE TurnTrust(w, l, session_id, ex.state, ex.value, FALSE, t)

\* lines 263-312: execution, recovery, the Trust Filter, the assistant message
TurnAfterExecute(w, l, session_id, tool, gen, rec, t) ==
    TurnExecuted(w, [l EXCEPT !.generated = turn_calls_generation(l.decision, l.intent_for_flow, tool),
                              !.filtered = turn_calls_tool(l.decision) /\ tool = "ok",
                              !.tool = IF turn_calls_tool(l.decision) THEN tool ELSE "none",
                              !.convert_args =
                                  IF turn_calls_tool(l.decision) /\ l.decision.tool_name = "currency"
                                  THEN convert_arguments(l.decision, l.user_message) ELSE {},
                              !.service_calls =
                                  IF turn_calls_generation(l.decision, l.intent_for_flow, tool)
                                  THEN 1 ELSE 0],
                 session_id,
                 execute_decision(l.decision, w.heap[l.ref], l.intent_for_flow,
                                  l.user_message, tool, gen),
                 rec, t)

\* the currency pair a user message states: two currency codes around "to"
RealCurrencyWords == {"usd", "eur", "gbp"}

UserPair(user_message) ==
    IF /\ Len(user_message) = 3
       /\ user_message[1] \in RealCurrencyWords
       /\ user_message[2] = "to"
       /\ user_message[3] \in RealCurrencyWords
       /\ user_message[1] # user_message[3]
    THEN {<<Upper(user_message[1]), Upper(user_message[3])>>}
    ELSE {}

\* the pair on record for the open currency_amount slot, after a finished call
RecordSuppliedPair(w, l) ==
    LET pending == IF l.ref = 0 THEN <<>> ELSE w.heap[l.ref].pending_missing_info
    IN  IF l.outcome = "ok" /\ l.decision.action = ASK_CLARIFICATION
           /\ l.decision.missing_info = <<"currency_amount">>
           /\ UserPair(l.user_message) # {}
        THEN [l EXCEPT !.supplied_pair = UserPair(l.user_message)]
        ELSE IF pending # <<"currency_amount">> THEN [l EXCEPT !.supplied_pair = {}]
        ELSE l

\* the end of a call: the pair on record is brought up to date
Finish(step) == Step(step.w, RecordSuppliedPair(step.w, step.l))

\* lines 263-312 unless the call has ended
TurnContinue(c, session_id, tool, gen, rec, t) ==
    IF c.l.pc = "done" THEN c
    ELSE TurnAfterExecute(c.w, c.l, session_id, tool, gen, rec, t)

\* lines 159-163
TurnBegin(a, session_id, t) == TurnStart(a.w, a.l, session_id, t)

\* lines 159-261
TurnUntilDecision(b, session_id, reply, t) ==
    TurnAfterClassify(b.w, b.l, session_id, reply, t)

\* the whole of handle_turn, nothing running in between
Turn(w, l, session_id, user_message, reply, tool, gen, rec, t) ==
    Finish(TurnContinue(
               TurnUntilDecision(
                   TurnBegin(TurnLookup(w, l, session_id, user_message, t), session_id, t),
                   session_id, reply, t),
               session_id, tool, gen, rec, t))

(***************************************************************************)
(* The inputs of a turn: the user message, the reply of the intent         *)
(* service, and the outcomes of the tool and of the generation service.    *)
(***************************************************************************)
UserMessages ==
    {<<"usd", "to", "eur">>, <<"100">>,
     <<"continue", "the", "itinerary">>, <<"make", "day", "in", "the", "city">>}

Updates(destination, start_date, end_date, duration_days) ==
    [destination |-> destination, start_date |-> start_date,
     end_date |-> end_date, duration_days |-> duration_days]

IntentReplies ==
    {IntentReply("error", None, NoUpdates),
     IntentReply("json", ITINERARY_PLANNING, NoUpdates),
     IntentReply("json", ITINERARY_PLANNING, Updates("Paris", None, None, {3})),
     IntentReply("json", ITINERARY_PLANNING, Updates("Paris", "next week", None, {})),
     IntentReply("json", CURRENCY_CONVERSION, NoUpdates)}

\* the outcomes to explore for each collaborator: those of a call the turn
\* makes.  The tool returns ok, returns not ok, or raises.
ToolChoices(l) ==
    IF l.pc = "execute" /\ turn_calls_tool(l.decision)
    THEN {"ok", "fail", "raise"} ELSE {"none"}

\* the generation service inside the executor: a failure, blank text, a
\* plan, a question
GenChoices(l, tool) ==
    IF l.pc = "execute" /\ turn_calls_generation(l.decision, l.intent_for_flow, tool)
    THEN {ServiceError, ServiceText(<<" ">>), ServiceText(<<"Here is your plan.">>),
          ServiceText(<<"Which", "budget", "?">>)}
    ELSE {NotCalled}

\* the generation service inside recovery: a failure, blank text, nothing but
\* a code fence, a plan
RecChoices(w, l, tool, gen) ==
    IF /\ l.pc = "execute"
       /\ execution_failed(execute_decision(l.decision, w.heap[l.ref], l.intent_for_flow,
                                            l.user_message, tool, gen))
       /\ recover_calls_service(w.heap[l.ref], l.intent_for_flow)
    THEN {ServiceError, ServiceText(<<" ">>),
          ServiceText(<<"<fence>tool_code", "\n", "<fence>">>),
          ServiceText(<<"Here is your plan.">>)}
    ELSE {NotCalled}

\* no function of the rules is being called on its own
NoProbe == [fn |-> None, at |-> "none"]

(***************************************************************************)
(* One worker: the calls of handle_turn follow one another (cli.py).       *)
(***************************************************************************)
Init ==
    /\ store = [sid \in SessionIds |-> 0]
    /\ heap = <<>>
    /\ thr = [t \in Workers |-> InitLocals]
    /\ now = 0
    /\ probe = NoProbe

\* the ends of a call whose decision has been taken, c being the step so far
ExecutionResults(c, session_id, t) ==
    UNION { UNION { { Finish(TurnContinue(c, session_id, tool, gen, rec, t))
                      : rec \in RecChoices(c.w, c.l, tool, gen) }
                    : gen \in GenChoices(c.l, tool) }
            : tool \in ToolChoices(c.l) }

\* the ways one call of handle_turn can end, over the inputs of the turn
TurnResults(w, l, session_id, t) ==
    UNION { ExecutionResults(
                TurnUntilDecision(
                    TurnBegin(TurnLookup(w, l, session_id, user_message, t), session_id, t),
                    session_id, reply, t),
                session_id, t)
            : user_message \in UserMessages, reply \in IntentReplies }

HandleTurn(t, session_id) ==
    /\ thr[t].pc \in {"idle", "done"}
    /\ thr[t].calls < MaxTurns
    /\ \E r \in TurnResults(World(store, heap), thr[t], session_id, now) :
         /\ store' = r.w.store
         /\ heap' = r.w.heap
         /\ thr' = [thr EXCEPT ![t] = r.l]
         /\ now' = now
         /\ probe' = probe

Next == \E session_id \in SessionIds : HandleTurn("t1", session_id)

Spec == Init /\ [][Next]_vars

(***************************************************************************)
(* The thread pool of the API (api/chat.py: a def endpoint runs in a       *)
(* worker thread).  Two workers call handle_turn for the same session; a   *)
(* worker can be overtaken wherever its call waits for a collaborator, and *)
(* between the lookup and the store of get_or_create.  cleanup_expired     *)
(* runs at any moment.  The collaborators answer: the intent service names *)
(* the goal of the message, the tool returns ok, the generation service    *)
(* returns a plan.                                                         *)
(***************************************************************************)
PoolMessages == {<<"usd", "to", "eur">>, <<"continue", "the", "itinerary">>}

\* the reply of the intent service to a message of the pool
PoolReply(user_message) ==
    IF user_message = <<"usd", "to", "eur">>
    THEN IntentReply("json", CURRENCY_CONVERSION, NoUpdates)
    ELSE IntentReply("json", ITINERARY_PLANNING, Updates("Paris", None, None, {3}))

PoolPlan == ServiceText(<<"Here is your plan.">>)

Apply(t, step) ==
    /\ store' = step.w.store
    /\ heap' = step.w.heap
    /\ thr' = [thr EXCEPT ![t] = step.l]
    /\ now' = now
    /\ probe' = probe

\* handle_turn is entered: self._states.get(session_id)
Lookup(t) ==
    /\ thr[t].pc \in {"idle", "done"}
    /\ thr[t].calls < MaxCallsPerWorker
    /\ \E session_id \in SessionIds, user_message \in PoolMessages :
         Apply(t, TurnLookup(World(store, heap), thr[t], session_id, user_message, now))

\* the rest of get_or_create, up to the call of the intent service
Start(t) ==
    /\ thr[t].pc = "get_or_create"
    /\ \E session_id \in SessionIds :
         Apply(t, TurnStart(World(store, heap), thr[t], session_id, now))

\* the intent service replied: lines 164-261
Classified(t) ==
    /\ thr[t].pc = "classify"
    /\ \E session_id \in SessionIds :
         Apply(t, Finish(TurnAfterClassify(
                             World(store, heap),
                             [thr[t] EXCEPT !.reply = PoolReply(thr[t].user_message)],
                             session_id, PoolReply(thr[t].user_message), now)))

\* the tool and the generation service replied: lines 263-312
Executed(t) ==
    /\ thr[t].pc = "execute"
    /\ \E session_id \in SessionIds :
         Apply(t, Finish(TurnAfterExecute(World(store, heap), thr[t], session_id,
                                          "ok", PoolPlan, PoolPlan, now)))

\* cleanup_expired, when it has something to delete; the calls in flight are marked
Sweep ==
    /\ expired_sessions(World(store, heap), now) # {}
    /\ store' = cleanup_expired(World(store, heap), now).store
    /\ thr' = [t \in Workers |->
                  IF thr[t].pc \in {"get_or_create", "classify", "execute"}
                  THEN [thr[t] EXCEPT !.swept = TRUE] ELSE thr[t]]
    /\ UNCHANGED <<heap, now, probe>>

\* time passes: more than the time-to-live of a session
Tick ==
    /\ now < MaxClock * (session_ttl_minutes + 1)
    /\ now' = now + session_ttl_minutes + 1
    /\ UNCHANGED <<store, heap, thr, probe>>

NextPool ==
    \/ \E t \in Workers : Lookup(t)
    \/ \E t \in Workers : Start(t)
    \/ \E t \in Workers : Classified(t)
    \/ \E t \in Workers : Executed(t)
    \/ Sweep
    \/ Tick

SpecPool == Init /\ [][NextPool]_vars

(***************************************************************************)
(* One worker, the first turns of a session, over requests for weather,    *)
(* for an itinerary and for a conversion: dates inside and beyond the      *)
(* forecast horizon, a duration of 0 days, a request for a live reading.   *)
(***************************************************************************)
WideMessages ==
    {<<"weather", "tomorrow">>, <<"is", "it", "raining", "right now">>,
     <<"what", "is", "it", "usually", "like">>,
     <<"plan", "my", "trip">>, <<"100", "usd", "to", "eur">>,
     <<"the", "weather", "in", "february">>}

WideReplies ==
    {IntentReply("json", WEATHER_QUERY, Updates("Paris", "today+1", None, {})),
     IntentReply("json", WEATHER_QUERY, Updates("Paris", "today+20", None, {})),
     IntentReply("json", WEATHER_QUERY, Updates(None, "today+20", None, {})),
     IntentReply("json", WEATHER_QUERY, Updates("Paris", "today-10", "today+3", {})),
     IntentReply("json", WEATHER_QUERY, Updates("Paris", "today-40", "today-10", {})),
     IntentReply("json", WEATHER_QUERY, Updates("Paris", "leap-02-01", "leap-02-29", {})),
     IntentReply("json", ITINERARY_PLANNING, NoUpdates),
     IntentReply("json", ITINERARY_PLANNING, Updates("Paris", None, None, {0})),
     IntentReply("json", CURRENCY_CONVERSION, NoUpdates),
     IntentReply("garbage", None, NoUpdates),
     IntentReply("not_object", None, NoUpdates),
     IntentReply("empty", None, NoUpdates),
     IntentReply("json", "book_flight", Updates("Rome", "today+1", None, {3}))}

WideTurnResults(w, l, session_id, t) ==
    UNION { ExecutionResults(
                TurnUntilDecision(
                    TurnBegin(TurnLookup(w, l, session_id, user_message, t), session_id, t),
                    session_id, reply, t),
                session_id, t)
            : user_message \in WideMessages, reply \in WideReplies }

HandleTurnWide(t, session_id) ==
    /\ thr[t].pc \in {"idle", "done"}
    /\ thr[t].calls < MaxWideTurns
    /\ \E r \in WideTurnResults(World(store, heap), thr[t], session_id, now) :
         /\ store' = r.w.store
         /\ heap' = r.w.heap
         /\ thr' = [thr EXCEPT ![t] = r.l]
         /\ now' = now
         /\ probe' = probe

NextWide == \E session_id \in SessionIds : HandleTurnWide("t1", session_id)

SpecWide == Init /\ [][NextWide]_vars

(***************************************************************************)
(* One worker, the requests of a currency conversation: the pair and the   *)
(* amount in one message or in two, an amount of 0, a pair of one          *)
(* currency, and messages for another goal in between.                     *)
(***************************************************************************)
CurrencyMessages ==
    {<<"usd", "to", "eur">>, <<"100">>, <<"0">>,
     <<"100", "usd", "to", "eur">>, <<"0", "usd", "to", "eur">>,
     <<"100", "usd", "to", "usd">>, <<"hello">>}

CurrencyReplies ==
    {IntentReply("json", CURRENCY_CONVERSION, NoUpdates),
     IntentReply("json", ITINERARY_PLANNING, Updates("Paris", None, None, {3})),
     IntentReply("json", ITINERARY_PLANNING, Updates("Paris", None, None, {0})),
     IntentReply("json", OUT_OF_SCOPE, NoUpdates),
     IntentReply("json", CONSTRAINTS_UPDATE, NoUpdates)}

\* the generation service inside recovery: also a question for one currency
CurrencyRecChoices(w, l, tool, gen) ==
    IF RecChoices(w, l, tool, gen) = {NotCalled} THEN {NotCalled}
    ELSE RecChoices(w, l, tool, gen)
         \cup {ServiceText(<<"What is the ", "from", " ", "currency", "?">>),
               ServiceText(<<"Which ", "currency", " do you want to convert ", "to", "?">>)}

\* the ends of a call whose decision has been taken, c being the step so far
CurrencyExecutionResults(c, session_id, t) ==
    UNION { UNION { { Finish(TurnContinue(c, session_id, tool, gen, rec, t))
                      : rec \in CurrencyRecChoices(c.w, c.l, tool, gen) }
                    : gen \in GenChoices(c.l, tool) }
            : tool \in ToolChoices(c.l) }

CurrencyTurnResults(w, l, session_id, t) ==
    UNION { CurrencyExecutionResults(
                TurnUntilDecision(
                    TurnBegin(TurnLookup(w, l, session_id, user_message, t), session_id, t),
                    session_id, reply, t),
                session_id, t)
            : user_message \in CurrencyMessages, reply \in CurrencyReplies }

HandleTurnCurrency(t, session_id) ==
    /\ thr[t].pc \in {"idle", "done"}
    /\ thr[t].calls < MaxCurrencyTurns
    /\ \E r \in CurrencyTurnResults(World(store, heap), thr[t], session_id, now) :
         /\ store' = r.w.store
         /\ heap' = r.w.heap
         /\ thr' = [thr EXCEPT ![t] = r.l]
         /\ now' = now
         /\ probe' = probe

NextCurrency == \E session_id \in SessionIds : HandleTurnCurrency("t1", session_id)

SpecCurrency == Init /\ [][NextCurrency]_vars

(***************************************************************************)
(* The rules on their own: one call of validate, of decide, of the         *)
(* constructor of Decision or of TrustLayer.apply, on arguments drawn from *)
(* the values below.                                                       *)
(***************************************************************************)
RuleCall(fn, intent, validation, user_message, state, decision, text, has_tool_data) ==
    [fn |-> fn, at |-> "args", intent |-> intent, validation |-> validation,
     user_message |-> user_message, state |-> state, decision |-> decision,
     text |-> text, has_tool_data |-> has_tool_data, out |-> None]

\* trip profiles: dates before today, inside and beyond the forecast horizon
RuleTrips ==
    {TripProfile(destination, start_date, end_date, duration_days) :
        destination \in {None, "Paris"}, start_date \in {{}, {-5}, {1}, {20}},
        end_date \in {{}, {3}, {16}, {17}, {25}}, duration_days \in {{}, {0}, {3}}}

RuleMessages ==
    {<<"weather", "in may">>, <<"what", "is", "it", "usually", "like">>,
     <<"rain", "on average">>, <<"weather", "tomorrow">>, <<"snow", "december">>,
     <<"is", "it", "raining", "right now">>,
     <<"usd", "to", "eur">>, <<"100">>, <<"continue", "the", "itinerary">>}

\* the history before the message of the turn
RuleHistories ==
    {<<>>,
     <<Message("user", <<"100">>), Message("assistant", <<"Which currencies", "?">>)>>,
     <<Message("user", <<"50", "gbp", "to", "usd">>), Message("assistant", <<"Done.">>),
       Message("user", <<"convert">>), Message("assistant", <<"Which currencies", "?">>)>>,
     <<Message("user", <<"usd", "to", "eur">>), Message("assistant", <<"What ", "amount", "?">>)>>}

\* the State at the call of decide: the message of the turn is the last of the history
RuleState(trip, pending, history, user_message) ==
    [NewState("s1", 0) EXCEPT !.trip_profile = trip,
                              !.pending_missing_info = pending,
                              !.conversation_history = Append(history, Message("user", user_message))]

\* n user messages that hold no amount and no pair
Chatter(n) == [i \in 1..n |-> Message("user", <<"hello">>)]

\* histories for the walk over prior user messages: a query in an assistant
\* message only, two queries, an amount newer than the pair, and a query that
\* is the 10th or the 11th user message counted from the end, the 11th also
\* with a blank user message after it
LookbackHistories ==
    {<<Message("assistant", <<"50", "gbp", "to", "usd">>), Message("user", <<"convert">>)>>,
     <<Message("user", <<"50", "gbp", "to", "usd">>), Message("assistant", <<"Done.">>),
       Message("user", <<"2", "eur", "to", "gbp">>)>>,
     <<Message("user", <<"gbp", "to", "usd">>), Message("user", <<"50">>)>>,
     <<Message("user", <<"50", "gbp", "to", "usd">>)>> \o Chatter(max_lookback_user_messages - 1),
     <<Message("user", <<"50", "gbp", "to", "usd">>)>> \o Chatter(max_lookback_user_messages),
     <<Message("user", <<"50", "gbp", "to", "usd">>)>> \o Chatter(max_lookback_user_messages - 1)
         \o <<Message("user", <<" ">>)>>}

RuleStates(user_message) ==
    {RuleState(trip, <<>>, <<>>, user_message) : trip \in RuleTrips}
    \cup {RuleState(TripProfile(None, {}, {}, {}), pending, history, user_message) :
             pending \in {<<"currency_amount">>, <<"currency_pair">>, <<"destination">>},
             history \in RuleHistories}
    \cup {RuleState(TripProfile(None, {}, {}, {}), pending, history, user_message) :
             pending \in {<<"currency_amount">>, <<"currency_pair">>},
             history \in LookbackHistories}

\* the call takes no ValidationResult
NoValidation == ValidationResult(TRUE, <<>>, <<>>)

\* what a Validator can report
RuleValidations ==
    {ValidationResult(Len(missing_info) = 0 /\ Len(problems) = 0, missing_info, problems) :
        missing_info \in {<<>>, <<"destination">>, <<"dates_or_duration">>,
                          <<"destination", "dates_or_duration">>},
        problems \in {<<>>, <<"duration_days must be > 0">>}}

InitRules ==
    /\ store = [sid \in SessionIds |-> 0]
    /\ heap = <<>>
    /\ thr = [t \in Workers |-> InitLocals]
    /\ now = 0
    /\ \/ \E user_message \in RuleMessages, intent \in Intent :
            \E state \in RuleStates(user_message) :
               probe = RuleCall("validate", intent, NoValidation, user_message, state,
                                NoDecision, <<>>, FALSE)
       \/ \E user_message \in RuleMessages, intent \in Intent, validation \in RuleValidations :
            \E state \in RuleStates(user_message) :
               probe = RuleCall("decide", intent, validation, user_message, state,
                                NoDecision, <<>>, FALSE)
       \/ \E user_message \in RuleMessages,
             intent \in {WEATHER_QUERY, ITINERARY_PLANNING, CURRENCY_CONVERSION},
             has_tool_data \in BOOLEAN,
             text \in {<<"Expect ", "25 C", " ", "tomorrow", ".">>,
                       <<"Highs ", "around", " ", "25 C", " ", "tomorrow", ".">>,
                       <<"Pack layers.">>,
                       <<"The rate is 0.84, so ", "100 USD", " ", "converts to 84", ".00 EUR">>,
                       <<"At a ", "rate of 0.84", " that is ", "84 EUR", ".">>,
                       <<"Which currencies", " are you converting ", "between", "?">>} :
               probe = RuleCall("apply", intent, NoValidation, user_message, NewState("s1", 0),
                                NoDecision, text, has_tool_data)
       \/ \E action \in {ASK_CLARIFICATION, GENERATE_RESPONSE, CALL_TOOL, OUT_OF_SCOPE_RESPONSE},
             tool_name \in {None, "", "weather", "currency"},
             tool_payload \in {{}, {CurrencyQuery(100, "USD", "EUR")}} :
               probe = RuleCall("Decision", None, NoValidation, <<>>, NewState("s1", 0),
                                Decision(action, <<>>, tool_name, tool_payload), <<>>, FALSE)

Returned(out) ==
    /\ probe' = [probe EXCEPT !.at = "returned", !.out = out]
    /\ UNCHANGED <<store, heap, thr, now>>

CallValidate ==
    /\ probe.fn = "validate" /\ probe.at = "args"
    /\ Returned(validate(probe.intent, probe.state))

CallDecide ==
    /\ probe.fn = "decide" /\ probe.at = "args"
    /\ Returned(decide(probe.intent, probe.validation, probe.user_message, probe.state))

\* Decision(...): the validator of the model runs after the fields are set
CallDecision ==
    /\ probe.fn = "Decision" /\ probe.at = "args"
    /\ Returned(IF check_tool_name(probe.decision) THEN "constructed" ELSE "ValueError")

CallTrustApply ==
    /\ probe.fn = "apply" /\ probe.at = "args"
    /\ Returned(trust_apply(probe.intent, probe.text, probe.has_tool_data, probe.user_message))

NextRules == CallValidate \/ CallDecide \/ CallDecision \/ CallTrustApply

SpecRules == InitRules /\ [][NextRules]_vars

(***************************************************************************)
(* Properties of the calls that follow one another (Spec).                 *)
(***************************************************************************)
(***************************************************************************)
(* The session store on its own: add_message, the snapshot of              *)
(* GET /state/{session_id} and cleanup_expired, called in any order on two *)
(* session ids while time passes in steps of half the time-to-live.        *)
(* probe records the calls: what was appended to each session since it was *)
(* created, and what the latest call returned.                             *)
(***************************************************************************)
StoreIds == {"s1", "s2"}

StoreLog(calls, appended, out) ==
    [fn |-> "store", calls |-> calls, appended |-> appended, out |-> out]

\* the message of the n-th call of add_message: the user and the assistant
\* take turns, the text is "n"
StoreMessage(n) == Message(IF n % 2 = 1 THEN "user" ELSE "assistant", <<ToString(n)>>)

InitStore ==
    /\ store = [sid \in StoreIds |-> 0]
    /\ heap = <<>>
    /\ thr = [t \in Workers |-> InitLocals]
    /\ now = 0
    /\ probe = StoreLog(0, [sid \in StoreIds |-> <<>>], 0)

\* state_manager.add_message(session_id, role, content)
AddMessage(session_id) ==
    /\ probe.calls < MaxAppends
    /\ store' = add_message(World(store, heap), session_id,
                            StoreMessage(probe.calls + 1).role,
                            StoreMessage(probe.calls + 1).content, now).store
    /\ heap' = add_message(World(store, heap), session_id,
                           StoreMessage(probe.calls + 1).role,
                           StoreMessage(probe.calls + 1).content, now).heap
    /\ probe' = StoreLog(probe.calls + 1,
                         [probe.appended EXCEPT ![session_id] =
                             Append(@, StoreMessage(probe.calls + 1))],
                         0)
    /\ UNCHANGED <<thr, now>>

\* get_state(session_id): the State is obtained with get_or_create and its
\* fields are copied into the StateSnapshot
GetState(session_id) ==
    /\ store' = get_or_create(World(store, heap), session_id, now).w.store
    /\ heap' = get_or_create(World(store, heap), session_id, now).w.heap
    /\ probe' = StoreLog(probe.calls, probe.appended, 0)
    /\ UNCHANGED <<thr, now>>

\* state_manager.cleanup_expired()
CleanupExpired ==
    /\ store' = cleanup_expired(World(store, heap), now).store
    /\ heap' = cleanup_expired(World(store, heap), now).heap
    /\ probe' = StoreLog(probe.calls,
                         [sid \in StoreIds |->
                             IF sid \in expired_sessions(World(store, heap), now)
                             THEN <<>> ELSE probe.appended[sid]],
                         cleanup_expired_count(World(store, heap), now))
    /\ UNCHANGED <<thr, now>>

\* time passes: half the time-to-live of a session
StoreTick ==
    /\ now < MaxStoreClock * (session_ttl_minutes \div 2)
    /\ now' = now + (session_ttl_minutes \div 2)
    /\ UNCHANGED <<store, heap, thr, probe>>

NextStore ==
    \/ \E session_id \in StoreIds : AddMessage(session_id)
    \/ \E session_id \in StoreIds : GetState(session_id)
    \/ CleanupExpired
    \/ StoreTick

SpecStore == InitStore /\ [][NextStore]_vars


(***************************************************************************)
(* One trip profile and the calls of apply_updates on it, one after the    *)
(* other.  probe holds the profile (interests and constraints beside the   *)
(* fields of TripProfile above), the number of calls and the update of the *)
(* latest call.                                                            *)
(***************************************************************************)
ProfileUpdate(fields, interests, constraints) ==
    [fields |-> fields, interests |-> interests, constraints |-> constraints]

\* the updates the intent service extracts: trip facts (one of them with a
\* start date that is no ISO date), interests and constraints with repeated,
\* padded and blank entries
ProfileUpdates ==
    {ProfileUpdate(fields, interests, constraints) :
        fields \in {NoUpdates, Updates("Paris", "today+1", None, {3}),
                    Updates(None, "next week", None, {})},
        interests \in {<<>>, <<<<"art">>>>, <<<<" ", "art">>, <<"food">>>>,
                       <<<<"food">>, <<"art">>, <<"food">>>>, <<<<>>, <<" ">>>>},
        constraints \in {<<>>, <<<<"vegetarian">>>>,
                         <<<<"vegetarian", " ">>, <<"no stairs">>>>}}

ProfileCall(calls, update, trip, interests, constraints) ==
    [fn |-> "apply_updates", calls |-> calls, update |-> update, trip |-> trip,
     interests |-> interests, constraints |-> constraints]

InitProfile ==
    /\ store = [sid \in SessionIds |-> 0]
    /\ heap = <<>>
    /\ thr = [t \in Workers |-> InitLocals]
    /\ now = 0
    /\ probe = ProfileCall(0, ProfileUpdate(NoUpdates, <<>>, <<>>),
                           TripProfile(None, {}, {}, {}), <<>>, <<>>)

\* trip_profile.apply_updates(updates): when a date raises ValueError
\* (line 42 or 49) the lists of the update are not reached
ApplyUpdates(update) ==
    /\ probe.calls < MaxProfileCalls
    /\ probe' = ProfileCall(probe.calls + 1, update,
                            apply_updates(probe.trip, update.fields).value,
                            IF apply_updates(probe.trip, update.fields).raised
                            THEN probe.interests
                            ELSE merge_list(probe.interests, update.interests),
                            IF apply_updates(probe.trip, update.fields).raised
                            THEN probe.constraints
                            ELSE merge_list(probe.constraints, update.constraints))
    /\ UNCHANGED <<store, heap, thr, now>>

NextProfile == \E update \in ProfileUpdates : ApplyUpdates(update)

SpecProfile == InitProfile /\ [][NextProfile]_vars

(***************************************************************************)
(* FallbackHandler.recover on its own: one call on a State with or without *)
(* a slot outstanding and a standing goal, for every intent of the turn    *)
(* (or none), the generation service failing, answering with blank text or *)
(* answering with a plan.                                                  *)
(***************************************************************************)
RecoverTrips ==
    {TripProfile(None, {}, {}, {}), TripProfile("Paris", {}, {}, {}),
     TripProfile("Paris", {}, {}, {3}), TripProfile("Paris", {}, {}, {0}),
     TripProfile(None, {}, {}, {3})}

RecoverStates ==
    {[NewState("s1", 0) EXCEPT !.trip_profile = trip, !.last_intent = last_intent,
                               !.pending_missing_info = pending] :
        trip \in RecoverTrips, last_intent \in GOAL_INTENTS \cup {None},
        pending \in {<<>>, <<"destination">>, <<"currency_amount">>}}

RecoverServiceOutcomes ==
    {ServiceError, ServiceText(<<" ">>), ServiceText(<<"Here is your plan.">>)}

RecoverCall(state, intent_for_flow, o) ==
    [fn |-> "recover", at |-> "args", state |-> state, intent |-> intent_for_flow,
     o |-> o, raised |-> FALSE, out |-> FallbackResult(<<>>, FALSE, <<>>, None)]

InitRecover ==
    /\ store = [sid \in SessionIds |-> 0]
    /\ heap = <<>>
    /\ thr = [t \in Workers |-> InitLocals]
    /\ now = 0
    /\ \E state \in RecoverStates, intent_for_flow \in Intent \cup {None},
          o \in RecoverServiceOutcomes :
            probe = RecoverCall(state, intent_for_flow, o)

\* the call returns a FallbackResult or raises what generate_text raised
RecoverReturns(fb) ==
    /\ probe' = [probe EXCEPT !.at = "returned", !.raised = fb.raised,
                              !.out = IF fb.raised THEN @ ELSE fb.value]
    /\ UNCHANGED <<store, heap, thr, now>>

CallRecover ==
    /\ probe.fn = "recover" /\ probe.at = "args"
    /\ RecoverReturns(recover(probe.state, probe.intent, probe.o))

NextRecover == CallRecover

SpecRecover == InitRecover /\ [][NextRecover]_vars


\* the State the store holds for a session
Stored(session_id) == heap[store[session_id]]

\* the locals of the latest call of the one worker
Call == thr["t1"]

Finished == Call.pc = "done"

\* the user message is one number and nothing else
BareNumber(user_message) == Len(user_message) = 1 /\ user_message[1] \in NumberTokens

\* C1: after every call of handle_turn, the pending slot list of every stored
\* session holds at most one element.
C1_PendingAtMostOne ==
    \A session_id \in SessionIds :
        store[session_id] # 0 => Len(Stored(session_id).pending_missing_info) <= 1

\* a call asked for clarification while the validator reported two missing fields
C1_Witness ==
    /\ Finished /\ Call.outcome = "ok"
    /\ Call.decision.action = ASK_CLARIFICATION
    /\ Len(Call.decision.missing_info) = 2
    /\ Len(Stored("s1").pending_missing_info) = 1

\* C2: every call of handle_turn leaves the user message and then one assistant
\* message at the end of the history, whatever the collaborators do.
C2_UserThenAssistantAppended ==
    Finished =>
        LET h == Stored("s1").conversation_history
        IN  /\ Len(h) >= 2
            /\ h[Len(h) - 1] = Message("user", Call.user_message)
            /\ h[Len(h)].role = "assistant"

\* C3: every call of handle_turn increases turn_count by one, whatever its
\* outcome: the count of a session equals the number of calls made for it.
C3_TurnCountCountsCalls ==
    Finished => Stored("s1").turn_count = Call.calls

\* C4: recover never raises: no call that entered recovery ends with an exception.
C4_RecoverNeverRaises ==
    ~(Finished /\ Call.recovered /\ Call.outcome = "raised")

\* C5: the assistant message a call appends and returns is never empty.
C5_AssistantMessageNeverEmpty ==
    (Finished /\ Call.outcome = "ok") =>
        /\ Call.assistant_text # <<>>
        /\ Stored("s1").conversation_history[Len(Stored("s1").conversation_history)].content
               # <<>>

\* the decision call-tool "currency" for an amount and a set of at most one pair
CurrencyCall(amount, pairs) ==
    Decision(CALL_TOOL, <<>>, "currency",
             {CurrencyQuery(amount, p[1], p[2]) : p \in pairs})

\* a call that started with the currency_amount slot pending, the user having
\* supplied a pair before, got a bare number and reached the router
BareNumberForPendingAmount ==
    /\ Finished
    /\ Call.decision # NoDecision
    /\ Call.prev_pending = <<"currency_amount">>
    /\ Call.prev_supplied # {}
    /\ BareNumber(Call.user_message)

\* C9: with currency_amount pending and a pair supplied before, a bare number
\* makes the router call the tool "currency" with that number and that pair,
\* also after turns of another goal.
C9_BareNumberCallsTool ==
    BareNumberForPendingAmount =>
        Call.decision = CurrencyCall(AmountValue(Call.user_message[1]), Call.prev_supplied)

\* a call that started with the currency_amount slot pending and whose goal
\* resolved to something else than currency conversion
OtherGoalWhilePendingAmount ==
    /\ Finished
    /\ Call.decision # NoDecision
    /\ Call.prev_pending = <<"currency_amount">>
    /\ Call.intent_for_flow # CURRENCY_CONVERSION

\* C10 as stated: the currency_amount slot is still the pending slot at the end
\* of a turn whose goal is not currency conversion.
C10_StickySlotKept ==
    OtherGoalWhilePendingAmount =>
        Stored("s1").pending_missing_info = <<"currency_amount">>

\* C10 amended: the same, provided that the router's decision for the turn is
\* not ask-clarification.
C10_StickySlotKeptUnlessAsked ==
    (OtherGoalWhilePendingAmount /\ Call.decision.action # ASK_CLARIFICATION)
    => Stored("s1").pending_missing_info = <<"currency_amount">>

\* an itinerary turn was answered while the slot stayed pending
C10_Witness ==
    /\ OtherGoalWhilePendingAmount
    /\ Call.outcome = "ok"
    /\ Call.intent_for_flow = ITINERARY_PLANNING
    /\ Call.decision.action = GENERATE_RESPONSE
    /\ Stored("s1").pending_missing_info = <<"currency_amount">>

(***************************************************************************)
(* Properties of the calls that run in the thread pool (SpecPool).         *)
(***************************************************************************)
\* the State of the session after one whole call for the inputs recorded in
\* the locals x, starting from the world w
SerialTurn(w, x) ==
    Turn(w, InitLocals, "s1", x.user_message, x.reply, "ok", PoolPlan, PoolPlan, 0).w

\* the stored State after the call of x and then the call of y, from the start
SerialState(x, y) ==
    SerialTurn(SerialTurn(World([sid \in SessionIds |-> 0], <<>>), x), y).heap[1]

Messages(state) ==
    {state.conversation_history[i] : i \in 1..Len(state.conversation_history)}

\* the stored State is the one the serial order x, y leaves
SameAsSerial(state, serial) ==
    /\ state.turn_count = serial.turn_count
    /\ state.pending_missing_info = serial.pending_missing_info
    /\ state.last_intent = serial.last_intent
    /\ Messages(state) = Messages(serial)

\* both workers finished their first call on the one stored State, no session
\* having expired
BothTurnsFinished ==
    /\ \A t \in Workers :
          thr[t].pc = "done" /\ thr[t].calls = 1 /\ thr[t].outcome = "ok"
    /\ now = 0
    /\ thr["t1"].ref = thr["t2"].ref
    /\ store["s1"] = thr["t1"].ref

\* C6: two calls of handle_turn that run concurrently for one session leave what
\* some serial order of the two leaves: turn_count, the messages of the
\* history, pending_missing_info and last_intent.
C6_ConcurrentTurnsSerializable ==
    BothTurnsFinished =>
        \/ SameAsSerial(Stored("s1"), SerialState(thr["t1"], thr["t2"]))
        \/ SameAsSerial(Stored("s1"), SerialState(thr["t2"], thr["t1"]))

\* C7: when an expiry sweep deletes the session while a turn for it is in
\* flight (a turn that found the session and during which no time passed),
\* the State the turn mutates is still the one the store holds, and the
\* turn's messages are in it.
C7_SweepKeepsTurnTogether ==
    \A t \in Workers :
        (/\ thr[t].pc = "done" /\ thr[t].outcome = "ok"
         /\ thr[t].swept /\ thr[t].found # 0 /\ thr[t].started_at = now)
        => /\ store["s1"] = thr[t].ref
           /\ Message("user", thr[t].user_message) \in Messages(heap[thr[t].ref])
           /\ Message("assistant", thr[t].assistant_text) \in Messages(heap[thr[t].ref])

\* C8: get_or_create is safe under concurrent calls: while no session has
\* expired, one State is constructed for the session id and every caller holds it.
C8_OneStatePerSession ==
    now = 0 =>
        /\ Len(heap) <= 1
        /\ \A t, u \in Workers :
              (thr[t].ref # 0 /\ thr[u].ref # 0) => thr[t].ref = thr[u].ref

(***************************************************************************)
(* Properties of the rules called on their own (SpecRules).                *)
(***************************************************************************)
ValidateReturned == probe.fn = "validate" /\ probe.at = "returned"

DecideReturned == probe.fn = "decide" /\ probe.at = "returned"

\* C11: decide evaluates its rules in priority order: an out-of-scope intent
\* yields the out-of-scope action whatever the validation and the pending
\* slot, an unresolved intent yields ask-clarification for "goal" whatever
\* the validation, every other intent with a failed validation yields
\* ask-clarification; call-tool and generate-response are returned only
\* when validation.ok holds.
C11_DecidePriorityOrder ==
    DecideReturned =>
        /\ probe.intent = OUT_OF_SCOPE => probe.out.action = OUT_OF_SCOPE_RESPONSE
        /\ probe.intent = CLARIFICATION_NEEDED =>
              probe.out.action = ASK_CLARIFICATION /\ probe.out.missing_info = <<"goal">>
        /\ (probe.intent \notin {OUT_OF_SCOPE, CLARIFICATION_NEEDED} /\ ~probe.validation.ok)
              => probe.out.action = ASK_CLARIFICATION
        /\ probe.out.action \in {CALL_TOOL, GENERATE_RESPONSE} => probe.validation.ok

\* a weather request inside the forecast window whose validation failed
C11_Witness ==
    /\ DecideReturned
    /\ probe.intent = WEATHER_QUERY /\ ~probe.validation.ok
    /\ is_within_open_meteo_forecast_window(probe.state.trip_profile)
    /\ ~mentions_month(probe.user_message)
    /\ probe.out.action = ASK_CLARIFICATION

\* the profile the call was made with
ProbeTrip == probe.state.trip_profile

\* decide was called with what validate reports for its intent and State
DecideAfterValidate ==
    DecideReturned /\ probe.validation = validate(probe.intent, probe.state)

\* an itinerary request whose profile has no destination
ItineraryWithoutDestination ==
    probe.intent = ITINERARY_PLANNING /\ ProbeTrip.destination = None

\* the profile holds a duration, or both dates
DatesOrDurationSet ==
    ProbeTrip.duration_days # {} \/ (ProbeTrip.start_date # {} /\ ProbeTrip.end_date # {})

UnmetRequiredFields ==
    IF probe.intent = ITINERARY_PLANNING
    THEN (IF ProbeTrip.destination = None THEN <<"destination">> ELSE <<>>)
         \o (IF DatesOrDurationSet THEN <<>> ELSE <<"dates_or_duration">>)
    ELSE IF probe.intent \in {WEATHER_QUERY, ATTRACTIONS_RECOMMENDATIONS, PACKING_LIST}
            /\ ProbeTrip.destination = None
    THEN <<"destination">>
    ELSE <<>>

\* what validate returned is what the table gives for the intent and the profile
ValidateFollowsTable ==
    ValidateReturned =>
        /\ probe.out.missing_info = UnmetRequiredFields
        /\ (probe.out.problems # <<>>) <=> (\E d \in ProbeTrip.duration_days : d <= 0)
        /\ probe.out.ok <=> (probe.out.missing_info = <<>> /\ probe.out.problems = <<>>)

MonthOrSeasonalWording ==
    \/ HasTok(probe.user_message, {"january", "february", "march", "april", "may", "june", "july", "august", "september", "october", "november", "december", "in may", "in january"})
    \/ HasTok(probe.user_message, {"usually", "typical", "around this time of year", "on average", "generally"})

\* C15: for a weather goal, whenever the user message mentions a month name
\* or uses seasonal phrasing, the router never returns call-tool, whatever
\* the trip dates are.
C15_SeasonalWordingNeverCallsTool ==
    (DecideReturned /\ probe.intent = WEATHER_QUERY /\ MonthOrSeasonalWording)
        => probe.out.action # CALL_TOOL

\* a weather request for days 1 to 3, worded with a month or a seasonal phrase
C15_Witness ==
    /\ DecideReturned /\ probe.intent = WEATHER_QUERY /\ MonthOrSeasonalWording
    /\ probe.validation.ok
    /\ ProbeTrip.destination = "Paris"
    /\ ProbeTrip.start_date = {1} /\ ProbeTrip.end_date = {3}
    /\ probe.out.action = GENERATE_RESPONSE

\* the window of the request: a missing bound is the other one, no dates is today
WindowStart ==
    IF ProbeTrip.start_date # {} THEN ProbeTrip.start_date
    ELSE IF ProbeTrip.end_date # {} THEN ProbeTrip.end_date ELSE {0}

WindowEnd ==
    IF ProbeTrip.end_date # {} THEN ProbeTrip.end_date ELSE WindowStart

\* today <= start <= end <= today + 16, at most 16 days long
WindowInsideHorizon ==
    \A s \in WindowStart : \A e \in WindowEnd :
        0 <= s /\ s <= e /\ e <= 16 /\ (e - s) + 1 <= 16

\* the window has a day before today or after today + 16
WindowReachesOutside ==
    \E d \in WindowStart \cup WindowEnd : d < 0 \/ d > 16

\* C16: whenever weather routing returns call-tool "weather", the trip's date
\* window lies fully inside the forecast horizon: today <= start <= end <=
\* today + 16, spanning at most 16 days; any window reaching before today or
\* beyond today + 16 is routed to generate-response.
C16_WeatherCallInsideHorizon ==
    (DecideAfterValidate /\ probe.intent = WEATHER_QUERY /\ probe.validation.ok) =>
        /\ (probe.out.action = CALL_TOOL /\ probe.out.tool_name = "weather")
              => WindowInsideHorizon
        /\ WindowReachesOutside => probe.out.action = GENERATE_RESPONSE

\* the tool name and the tool payload of d are present iff d is a call-tool decision
ToolFieldsIffCallTool(d) ==
    /\ (d.tool_name \notin {None, ""}) <=> (d.action = CALL_TOOL)
    /\ (d.tool_payload # {}) <=> (d.action = CALL_TOOL)

\* C18: every Decision that can be constructed has tool_name present iff its
\* action is call-tool and tool_payload present iff its action is call-tool;
\* the construction of a Decision violating either direction fails.  The
\* decisions decide returns are constructed Decisions.
C18_ToolFieldsIffCallTool ==
    /\ (probe.fn = "Decision" /\ probe.at = "returned" /\ probe.out = "constructed")
          => ToolFieldsIffCallTool(probe.decision)
    /\ DecideReturned => ToolFieldsIffCallTool(probe.out)

\* decide was called for a currency request whose message holds a pair and no amount
PairOnlyCurrencyRequest ==
    /\ DecideReturned /\ probe.intent = CURRENCY_CONVERSION /\ probe.validation.ok
    /\ probe.user_message = <<"usd", "to", "eur">>

\* an earlier user message of the history holds a number
NumberInHistory ==
    \E i \in 1..(Len(probe.state.conversation_history) - 1) :
        /\ probe.state.conversation_history[i].role = "user"
        /\ HasTok(probe.state.conversation_history[i].content, {"100", "50"})

\* C19: in cross-message combination the amount is taken from history only
\* when the caller permits it, and the router permits it only when the
\* outstanding slot is exactly currency_amount: with pending slot
\* currency_pair, a message holding only a pair yields no query and no
\* currency tool call, whatever numbers earlier user messages contain.
C19_AmountFromHistoryOnlyIfPermitted ==
    PairOnlyCurrencyRequest =>
        /\ combine_currency_query_from_history(
               probe.user_message, AllButLast(probe.state.conversation_history), FALSE) = {}
        /\ probe.state.pending_missing_info = <<"currency_pair">>
              => probe.out.action = ASK_CLARIFICATION
        /\ probe.out.action = CALL_TOOL
              => probe.state.pending_missing_info = <<"currency_amount">>

\* the slot currency_pair is pending, an earlier user message holds a number,
\* and the router asks instead of calling the tool
C19_Witness ==
    /\ PairOnlyCurrencyRequest /\ NumberInHistory
    /\ probe.state.pending_missing_info = <<"currency_pair">>
    /\ probe.out.action = ASK_CLARIFICATION

\* with the slot currency_amount pending the amount of the history is used
AmountBackfilledWhenPermitted ==
    /\ PairOnlyCurrencyRequest /\ NumberInHistory
    /\ probe.state.pending_missing_info = <<"currency_amount">>
    /\ probe.out = Decision(CALL_TOOL, <<>>, "currency", {CurrencyQuery(100, "USD", "EUR")})

\* a weather request whose dates lie beyond the forecast horizon
WeatherBeyondHorizon ==
    /\ probe.intent = WEATHER_QUERY
    /\ \E d \in WindowStart \cup WindowEnd : d > horizon_days

ApplyReturned == probe.fn = "apply" /\ probe.at = "returned"

\* the Trust Filter was given a weather answer and no tool data
WeatherTextWithoutToolData ==
    ApplyReturned /\ probe.intent = WEATHER_QUERY /\ ~probe.has_tool_data

HorizonDisclaimer ==
    <<"I can't fetch an exact forecast for that date ", "right now", " (...up to ~16 days ahead). ... I can give seasonal expectations and packing advice.">>

\* the text holds a number with a unit of weather
NumericForecastPattern ==
    HasTok(probe.text, {"25 C", "12 mm", "30 km/h", "highs of 25", "lows of 10"})

\* the number comes with forecast wording, in the text or in the request, and
\* the text has no seasonal hedge
ForecastWordingUnhedged ==
    /\ \/ HasTok(probe.text, {"on ", "tomorrow", "today", "this weekend", "next week"})
       \/ HasTok(probe.user_message, {"exact", "daily", "each day", "day-by-day", "tomorrow", "on "})
    /\ ~HasTok(probe.text, {"typical", "usually", "generally", "on average", "average", "around", "roughly", "seasonal", "often", "between"})

\* the request asks for a live reading, or names a month or a season
LiveOrSeasonalRequest ==
    HasTok(probe.user_message, {"right now", "live", "currently", "today", "as of now", "exact temperature", "in may", "in january", "season"})

HorizonDisclaimerWritten ==
    /\ WeatherTextWithoutToolData /\ NumericForecastPattern
    /\ ForecastWordingUnhedged /\ ~LiveOrSeasonalRequest
    /\ probe.text # HorizonDisclaimer /\ probe.out.text = HorizonDisclaimer
    /\ probe.out.flagged

(***************************************************************************)
(* Properties of the turns over the wider requests (SpecWide).             *)
(***************************************************************************)
\* the call returned a reply for a goal whose validation is not ok; the trip
\* profile is not written after the decision, so the stored profile is the
\* one that was validated
GoalTurnValidationFailed ==
    /\ Finished /\ Call.outcome = "ok"
    /\ Call.intent_for_flow \in GOAL_INTENTS
    /\ ~validate(Call.intent_for_flow, Stored("s1")).ok

\* C12: whenever validation is not ok for a goal turn, the turn asks for
\* exactly one named slot, the first missing or invalid field, and that slot
\* is the pending slot after the turn; this also holds when the only defect
\* is a non-positive duration.
C12_FailedValidationAsksOneSlot ==
    GoalTurnValidationFailed =>
        /\ Call.decision.action = ASK_CLARIFICATION
        /\ Len(Stored("s1").pending_missing_info) = 1
        /\ validate(Call.intent_for_flow, Stored("s1")).missing_info # <<>>
              => Stored("s1").pending_missing_info =
                    First1(validate(Call.intent_for_flow, Stored("s1")).missing_info)
        /\ Call.assistant_text =
              build_clarification_question(Stored("s1").pending_missing_info)

\* C20: every assistant message whose text was produced by the generation
\* collaborator, in the executor or in recovery, on every path including
\* recovery after a call-tool decision, has passed through the Trust Filter
\* before it is appended to the history and returned.
C20_GeneratedTextIsFiltered ==
    (Finished /\ Call.outcome = "ok" /\ Call.generated) => Call.filtered

\* the Trust Filter was given a currency answer and no tool data
CurrencyTextWithoutToolData ==
    ApplyReturned /\ probe.intent = CURRENCY_CONVERSION /\ ~probe.has_tool_data

\* C21: for goal = currency with no tool data attached, whenever the
\* assistant text contains a rate-like or converted-amount-like pattern, the
\* Trust Filter output is flagged with reason currency_numbers_without_tool
\* and the output text itself no longer contains any such pattern.
C21_CurrencyNumbersRemoved ==
    (CurrencyTextWithoutToolData /\ contains_currency_rate_or_conversion(probe.text)) =>
        /\ probe.out.flagged
        /\ \E i \in 1..Len(probe.out.reasons) :
              probe.out.reasons[i] = "currency_numbers_without_tool"
        /\ ~contains_currency_rate_or_conversion(probe.out.text)

\* the call reached the tool and the tool failed: it returned a result that
\* is not ok ("fail": timeout, HTTP error, no rate) or an exception left the
\* client ("raise": a payload of another shape)
ToolReportedError ==
    /\ Finished /\ turn_calls_tool(Call.decision)
    /\ Call.tool \in {"fail", "raise"}

\* the fixed text of _execute_decision for a tool that failed
DegradedServiceText(tool_name) ==
    IF tool_name = "weather"
    THEN <<"I couldn't fetch weather info ", "right now", ". If you tell me your dates (or month), I can still give general seasonal packing tips.">>
    ELSE <<"I couldn't fetch the exchange rate ", "right now", ". Try again in a moment, or share the currencies in the format ", "100 USD", " to EUR.">>

\* C22: when the weather or currency collaborator reports an error, the
\* turn's assistant message is that tool's fixed degraded-service text, the
\* generation collaborator is not invoked for that turn (neither by the
\* executor nor by recovery), and the turn completes normally.
C22_ToolErrorDegradedText ==
    ToolReportedError =>
        /\ Call.outcome = "ok"
        /\ Call.assistant_text = DegradedServiceText(Call.decision.tool_name)
        /\ Call.service_calls = 0

\* what holds of the tool failures that the client returns as a result
ToolResultNotOkDegradedText ==
    (ToolReportedError /\ Call.tool = "fail") =>
        /\ Call.outcome = "ok"
        /\ Call.assistant_text = DegradedServiceText(Call.decision.tool_name)
        /\ Call.service_calls = 0

\* the executor raised or returned empty or whitespace-only text
ExecutorFailed == Finished /\ Call.exec_failed

\* C23: whenever the executor raises or returns empty or whitespace-only
\* text, the Recovery Ladder is invoked exactly once in that turn and its
\* message becomes the turn's assistant message; the failure is never
\* propagated to the caller of handle_turn.
C23_ExecutorFailureRecovered ==
    ExecutorFailed =>
        /\ Call.recoveries = 1
        /\ Call.outcome = "ok"
        /\ Call.assistant_text = Call.fallback_message

\* what holds of every failure of the executor: recover is called once
ExecutorFailureCallsRecoverOnce == ExecutorFailed => Call.recoveries = 1

\* the call of the currency tool of the latest turn succeeded
CurrencyToolSucceeded ==
    /\ Finished /\ Call.outcome = "ok"
    /\ Call.decision.action = CALL_TOOL /\ Call.decision.tool_name = "currency"
    /\ Call.tool = "ok"

\* C24: after a turn in which the currency tool call succeeded, last_intent
\* equals primary_intent whenever a primary_intent is recorded; with no
\* primary_intent recorded, last_intent stays currency conversion.
C24_CurrencyReturnsToPrimaryGoal ==
    CurrencyToolSucceeded =>
        Stored("s1").last_intent =
            IF Stored("s1").primary_intent # None THEN Stored("s1").primary_intent
            ELSE CURRENCY_CONVERSION

\* a conversion was answered by the tool in a session whose standing goal is
\* another one, and last_intent is that goal again
C24_Witness ==
    /\ CurrencyToolSucceeded
    /\ Stored("s1").primary_intent \in GOAL_INTENTS \ {CURRENCY_CONVERSION}
    /\ Stored("s1").last_intent = Stored("s1").primary_intent

\* a conversion was answered by the tool in a session with no standing goal
CurrencyToolSucceededWithoutPrimary ==
    /\ CurrencyToolSucceeded
    /\ Stored("s1").primary_intent = None
    /\ Stored("s1").last_intent = CURRENCY_CONVERSION

(***************************************************************************)
(* Properties of the session store (SpecStore).                            *)
(***************************************************************************)
\* C25: the read-only snapshot operation leaves the session store unchanged
\* for every session id, including ids never seen before: it creates no
\* session and changes no field of any existing session.
C25_SnapshotLeavesStoreUnchanged ==
    [][\A session_id \in StoreIds :
          GetState(session_id) => (store' = store /\ heap' = heap)]_vars

\* what holds of the snapshot of a session that exists
SnapshotOfStoredSessionChangesNothing ==
    [][\A session_id \in StoreIds :
          (GetState(session_id) /\ store[session_id] # 0)
              => (store' = store /\ heap' = heap)]_vars

\* the history of a stored session, and what add_message was given for it
\* since the session was created
StoredHistory(session_id) == heap[store[session_id]].conversation_history

\* the most recent min(n, bound) of n messages, in their order
MostRecent(appended, bound) ==
    [i \in 1..(IF Len(appended) <= bound THEN Len(appended) ELSE bound) |->
        appended[i + Len(appended) - (IF Len(appended) <= bound THEN Len(appended) ELSE bound)]]

\* C26: after any sequence of add_message calls on a session, the history
\* length is at most the bound and the history equals the most recent
\* min(n, bound) appended messages in their original order.
C26_HistoryIsSlidingWindow ==
    \A session_id \in StoreIds :
        store[session_id] # 0 =>
            /\ Len(StoredHistory(session_id)) <= MaxHistory
            /\ StoredHistory(session_id) = MostRecent(probe.appended[session_id], MaxHistory)

\* a session was given more messages than the bound: the oldest are gone
C26_Witness ==
    \E session_id \in StoreIds :
        /\ store[session_id] # 0
        /\ Len(probe.appended[session_id]) > MaxHistory
        /\ Len(StoredHistory(session_id)) = MaxHistory
        /\ StoredHistory(session_id)[1] # probe.appended[session_id][1]
        /\ StoredHistory(session_id)[MaxHistory]
              = probe.appended[session_id][Len(probe.appended[session_id])]

\* the stored sessions whose updated timestamp is more than the time-to-live
\* older than now
OlderThanTTL ==
    {session_id \in StoreIds :
        /\ store[session_id] # 0
        /\ now - heap[store[session_id]].updated_at > session_ttl_minutes}

\* C27: the expiry sweep removes exactly the sessions whose updated
\* timestamp is more than TTL older than now, leaves every other session and
\* its contents unchanged, and returns the number of sessions it removed.
C27_SweepRemovesExactlyExpired ==
    [][CleanupExpired =>
          /\ \A session_id \in StoreIds :
                store'[session_id] = IF session_id \in OlderThanTTL THEN 0
                                     ELSE store[session_id]
          /\ heap' = heap
          /\ probe'.out = Cardinality(OlderThanTTL)]_vars

\* the latest sweep removed one session and kept the other, which was
\* exactly as old as the time-to-live
C27_Witness ==
    /\ probe.out = 1
    /\ \E removed \in StoreIds, kept \in StoreIds :
          /\ store[removed] = 0 /\ store[kept] # 0
          /\ now - heap[store[kept]].updated_at = session_ttl_minutes

(***************************************************************************)
(* Properties of the calls of apply_updates (SpecProfile).                 *)
(***************************************************************************)
NoDuplicates(list) ==
    \A i \in 1..Len(list) : \A j \in 1..Len(list) : list[i] = list[j] => i = j

\* list begins with the entries of before, in their order
StartsWith(list, before) ==
    /\ Len(before) <= Len(list)
    /\ \A i \in 1..Len(before) : list[i] = before[i]

\* the place of the first entry of the update that reads as entry
FirstOffered(entries, entry) ==
    Min({i \in 1..Len(entries) : Strip(entries[i]) = entry})

\* the entries list has beyond those of before are non-blank entries of the
\* update, in the order in which the update names them first
NewInOrderOffered(list, before, entries) ==
    /\ \A i \in (Len(before) + 1)..Len(list) :
          list[i] # <<>> /\ \E k \in 1..Len(entries) : Strip(entries[k]) = list[i]
    /\ \A i \in (Len(before) + 1)..Len(list) : \A j \in (i + 1)..Len(list) :
          FirstOffered(entries, list[i]) < FirstOffered(entries, list[j])

\* C28: for every sequence of apply_updates calls, interests and constraints
\* contain no duplicate entries and keep first-seen order, and applying the
\* same update a second time leaves both lists unchanged.
C28_ListsUniqueInFirstSeenOrder ==
    /\ [](NoDuplicates(probe.interests) /\ NoDuplicates(probe.constraints))
    /\ [][\A update \in ProfileUpdates : ApplyUpdates(update) =>
             /\ StartsWith(probe'.interests, probe.interests)
             /\ StartsWith(probe'.constraints, probe.constraints)
             /\ NewInOrderOffered(probe'.interests, probe.interests, update.interests)
             /\ NewInOrderOffered(probe'.constraints, probe.constraints, update.constraints)
             /\ (probe.calls > 0 /\ update = probe.update) =>
                   /\ probe'.interests = probe.interests
                   /\ probe'.constraints = probe.constraints]_vars

\* an update naming food, art and food again was applied to a profile that
\* held art: the interests are art, food
C28_Witness ==
    /\ probe.fn = "apply_updates" /\ probe.calls = 2
    /\ probe.update.interests = <<<<"food">>, <<"art">>, <<"food">>>>
    /\ probe.interests = <<<<"art">>, <<"food">>>>

(***************************************************************************)
(* Properties of the trip profile over the turns (SpecWide).               *)
(***************************************************************************)
\* every field of the trip profile that holds a value in before holds one in after
FieldsStaySet(before, after) ==
    /\ before.destination # None => after.destination # None
    /\ before.start_date # {} => after.start_date # {}
    /\ before.end_date # {} => after.end_date # {}
    /\ before.duration_days # {} => after.duration_days # {}

\* after is before, or what apply_updates makes of before for an update of
\* the intent service
MergedFrom(before, after) ==
    \/ after = before
    \/ \E reply \in WideReplies : after = apply_updates(before, reply.updates).value

\* C29: while a session lives, its Trip Profile changes only through the
\* update-merge operation, and a field that has been set never becomes unset
\* again in any turn.
C29_ProfileOnlyMergedNeverUnset ==
    [][\A session_id \in SessionIds :
          (store[session_id] # 0 /\ store'[session_id] = store[session_id]) =>
              /\ MergedFrom(heap[store[session_id]].trip_profile,
                            heap'[store[session_id]].trip_profile)
              /\ FieldsStaySet(heap[store[session_id]].trip_profile,
                               heap'[store[session_id]].trip_profile)]_vars

\* what holds: the destination and the duration, once set, stay set
DestinationAndDurationStaySet ==
    [][\A session_id \in SessionIds :
          (store[session_id] # 0 /\ store'[session_id] = store[session_id]) =>
              /\ heap[store[session_id]].trip_profile.destination # None
                    => heap'[store[session_id]].trip_profile.destination # None
              /\ heap[store[session_id]].trip_profile.duration_days # {}
                    => heap'[store[session_id]].trip_profile.duration_days # {}]_vars

(***************************************************************************)
(* Properties of the turns whose intent reply is no valid answer           *)
(* (SpecWide).                                                             *)
(***************************************************************************)
\* the State of session s1 before a step: the stored one, or the one the
\* turn will construct
StateBefore == IF store["s1"] # 0 THEN heap[store["s1"]] ELSE NewState("s1", now)

\* the step is a call of handle_turn whose intent reply cannot be recovered
\* as a valid structured answer: it is empty, no JSON, no JSON object, or an
\* object with an unknown intent value
UnstructuredReplyTurn ==
    /\ thr'["t1"].calls = thr["t1"].calls + 1
    /\ thr'["t1"].unstructured

\* the turn resolved as clarification-needed, merged nothing, left the goals
\* alone and asked one clarification question
ResolvedAsClarification ==
    /\ thr'["t1"].outcome = "ok"
    /\ thr'["t1"].intent_for_flow = CLARIFICATION_NEEDED
    /\ store'["s1"] # 0
    /\ heap'[store'["s1"]].trip_profile = StateBefore.trip_profile
    /\ heap'[store'["s1"]].last_intent = StateBefore.last_intent
    /\ heap'[store'["s1"]].primary_intent = StateBefore.primary_intent
    /\ thr'["t1"].decision.action = ASK_CLARIFICATION
    /\ Len(heap'[store'["s1"]].pending_missing_info) = 1
    /\ thr'["t1"].assistant_text =
          build_clarification_question(heap'[store'["s1"]].pending_missing_info)

\* C30: when the intent collaborator's answer cannot be recovered as a valid
\* structured answer, the turn does not fail: it resolves as
\* clarification-needed, merges no trip-fact updates, leaves last_intent and
\* primary_intent unchanged, and ends with a single clarification question.
C30_UnstructuredReplyAsksClarification ==
    [][UnstructuredReplyTurn => ResolvedAsClarification]_vars

\* what holds: the same for text that is no JSON and for an object with an
\* unknown intent value, when the message names no month
UnparseableTextAsksClarification ==
    [][(/\ UnstructuredReplyTurn
        /\ thr'["t1"].outcome = "ok"
        /\ ~mentions_month(thr'["t1"].user_message)) => ResolvedAsClarification]_vars


\* a turn with such a reply has ended with the clarification question, in a
\* session that had a standing goal and a destination
UnstructuredReplyResolved ==
    /\ thr["t1"].unstructured
    /\ thr["t1"].outcome = "ok"
    /\ thr["t1"].calls >= 2
    /\ store["s1"] # 0
    /\ heap[store["s1"]].primary_intent # None
    /\ heap[store["s1"]].trip_profile.destination # None
    /\ thr["t1"].intent_for_flow = CLARIFICATION_NEEDED


(***************************************************************************)
(* Properties of recovery in a turn that began with a slot outstanding     *)
(* (Spec).                                                                 *)
(***************************************************************************)
\* recover ran in the latest turn, which began with a slot outstanding
RecoveryWithSlotOutstanding ==
    /\ Finished
    /\ Call.recoveries > 0
    /\ Call.prev_pending # <<>>

\* recover called the generation service in the latest turn
RecoveryCalledService ==
    Call.service_calls >
        IF turn_calls_generation(Call.decision, Call.intent_for_flow, Call.tool) THEN 1 ELSE 0

RecoveryWhileSlotOutstanding ==
    /\ Finished
    /\ Call.recoveries > 0
    /\ Call.recover_pending # <<>>

RecoveryGeneratedWithSlotOutstanding ==
    /\ RecoveryWithSlotOutstanding
    /\ Call.outcome = "ok"
    /\ RecoveryCalledService


(***************************************************************************)
(* Properties of the currency branch of decide (SpecRules).                *)
(***************************************************************************)
\* decide was called for a currency goal and neither the message nor the
\* history yields a query
CurrencyQueryUnresolved ==
    /\ DecideAfterValidate
    /\ probe.intent = CURRENCY_CONVERSION
    /\ currency_query_or_history(parse_currency_query(probe.user_message),
                                 probe.user_message, probe.state) = {}

\* the slot the claim names for the pending slot and the message
ClaimedCurrencySlot ==
    IF probe.state.pending_missing_info = <<"currency_amount">>
       /\ ~is_numeric_amount(probe.user_message)
    THEN "currency_amount"
    ELSE IF parse_currency_pair(probe.user_message) # {} THEN "currency_amount"
    ELSE "currency_pair"

\* C32: for a currency goal whose query cannot be resolved, the router's
\* single clarification is currency_amount if the outstanding slot is
\* currency_amount and the message is not numeric, otherwise currency_amount
\* if the message contains a bare pair, otherwise currency_pair; it never
\* asks for more than one slot.
C32_CurrencyClarificationSlot ==
    CurrencyQueryUnresolved =>
        probe.out = Decision(ASK_CLARIFICATION, <<ClaimedCurrencySlot>>, None, {})

\* C32 for the calls whose validation is ok: the branches of decide before
\* the currency branch do not return
C32_CurrencyClarificationSlotWhenValid ==
    (CurrencyQueryUnresolved /\ probe.validation.ok) =>
        probe.out = Decision(ASK_CLARIFICATION, <<ClaimedCurrencySlot>>, None, {})

\* the question for the amount is outstanding, the message is no number and
\* names no pair, and the router asks for the amount again
C32_Witness ==
    /\ CurrencyQueryUnresolved /\ probe.validation.ok
    /\ probe.state.pending_missing_info = <<"currency_amount">>
    /\ ~is_numeric_amount(probe.user_message)
    /\ parse_currency_pair(probe.user_message) = {}
    /\ probe.out.missing_info = <<"currency_amount">>

\* the other two cases: a bare pair with no slot outstanding, and a bare
\* number answering the outstanding amount question with no pair on record
CurrencyAsksAmountForBarePair ==
    /\ CurrencyQueryUnresolved /\ probe.validation.ok
    /\ probe.state.pending_missing_info = <<>>
    /\ parse_currency_pair(probe.user_message) # {}
    /\ probe.out.missing_info = <<"currency_amount">>

CurrencyAsksPairForBareNumber ==
    /\ CurrencyQueryUnresolved /\ probe.validation.ok
    /\ probe.state.pending_missing_info = <<"currency_amount">>
    /\ is_numeric_amount(probe.user_message)
    /\ probe.out.missing_info = <<"currency_pair">>


(***************************************************************************)
(* Properties of the call of the currency tool (SpecCurrency).             *)
(***************************************************************************)
\* the currency tool was called in the latest turn
CurrencyToolCalled ==
    /\ Finished
    /\ Call.tool # "none"
    /\ Call.decision.action = CALL_TOOL /\ Call.decision.tool_name = "currency"

\* C33: every invocation of the currency collaborator uses exactly the
\* amount, from and to values of the Decision's payload, and those values
\* satisfy amount > 0 and from # to.
C33_CurrencyCallUsesPayload ==
    CurrencyToolCalled =>
        /\ Call.convert_args = Call.decision.tool_payload
        /\ Cardinality(Call.convert_args) = 1
        /\ \A q \in Call.convert_args : q.amount > 0 /\ q.from_ccy # q.to_ccy

\* the tool was called with a payload the message alone does not yield: the
\* pair comes from an earlier message
C33_Witness ==
    /\ CurrencyToolCalled
    /\ Call.user_message = <<"100">>
    /\ Call.convert_args = {CurrencyQuery(100, "USD", "EUR")}

\* the amount 0 answering the amount question: no call of the tool
ZeroAmountNotConverted ==
    /\ Finished
    /\ Call.user_message \in {<<"0">>, <<"0", "usd", "to", "eur">>}
    /\ Call.prev_pending = <<"currency_amount">>
    /\ Call.intent_for_flow = CURRENCY_CONVERSION
    /\ Call.tool = "none"
    /\ Call.decision = Decision(ASK_CLARIFICATION, <<"currency_amount">>, None, {})

\* a pair of one currency is no pair: no call of the tool
SameCurrencyNotConverted ==
    /\ Finished
    /\ Call.user_message = <<"100", "usd", "to", "usd">>
    /\ Call.intent_for_flow = CURRENCY_CONVERSION
    /\ Call.tool = "none"
    /\ Call.decision.action = ASK_CLARIFICATION


(***************************************************************************)
(* Properties of the turns that begin with a currency slot outstanding     *)
(* (SpecCurrency).                                                         *)
(***************************************************************************)
\* the latest turn began with one of the slots currency_pair, currency_from,
\* currency_to outstanding, its intent answer was a valid one, and the turn
\* came to its decision
PairSlotTurnDecided ==
    /\ Finished
    /\ Call.prev_pending \in {<<"currency_pair">>, <<"currency_from">>, <<"currency_to">>}
    /\ ~Call.unstructured
    /\ Call.decision # NoDecision

\* the decision asks for a currency slot or calls the currency tool
CurrencyDecision ==
    \/ /\ Call.decision.action = ASK_CLARIFICATION
       /\ Call.decision.missing_info \in {<<"currency_amount">>, <<"currency_pair">>}
    \/ /\ Call.decision.action = CALL_TOOL
       /\ Call.decision.tool_name = "currency"

\* validate reports nothing for a currency goal unless the stored duration
\* is not positive
StoredDurationPositive ==
    \A d \in Stored("s1").trip_profile.duration_days : d > 0

\* C34: a turn that starts with pending slot currency_pair (or currency_from
\* or currency_to) and whose intent answer parses is resolved as currency
\* conversion, whatever intent the collaborator returned; with validation ok
\* it ends in ask-clarification for a currency slot or call-tool
\* "currency", never in generate-response or the out-of-scope action.
C34_PairSlotKeepsCurrencyGoal ==
    PairSlotTurnDecided =>
        /\ Call.intent_for_flow = CURRENCY_CONVERSION
        /\ StoredDurationPositive => CurrencyDecision

\* the slot currency_pair was outstanding, the intent service answered with
\* another goal, and the turn asked for a currency slot
C34_Witness ==
    /\ PairSlotTurnDecided
    /\ Call.prev_pending = <<"currency_pair">>
    /\ Call.raw_intent = ITINERARY_PLANNING
    /\ Call.intent_for_flow = CURRENCY_CONVERSION
    /\ Call.decision.action = ASK_CLARIFICATION

\* the same with the slots currency_from and currency_to outstanding, and
\* with the out-of-scope answer
FromSlotKeepsCurrencyGoal ==
    /\ PairSlotTurnDecided
    /\ Call.prev_pending = <<"currency_from">>
    /\ Call.raw_intent = OUT_OF_SCOPE
    /\ Call.intent_for_flow = CURRENCY_CONVERSION

ToSlotKeepsCurrencyGoal ==
    /\ PairSlotTurnDecided
    /\ Call.prev_pending = <<"currency_to">>
    /\ Call.raw_intent = ITINERARY_PLANNING
    /\ CurrencyDecision

\* with a stored duration of 0 the validation fails and the router asks
\* without naming a slot
PairSlotTurnWithInvalidDuration ==
    /\ PairSlotTurnDecided
    /\ ~StoredDurationPositive
    /\ Call.intent_for_flow = CURRENCY_CONVERSION
    /\ Call.decision = Decision(ASK_CLARIFICATION, <<>>, None, {})


(***************************************************************************)
(* Properties of recover called on its own (SpecRecover).                  *)
(***************************************************************************)
RecoverReturned == probe.fn = "recover" /\ probe.at = "returned"

\* the goal of the claim: the incoming goal before the standing one
ClaimedRecoverGoal ==
    IF probe.intent \in GOAL_INTENTS THEN probe.intent
    ELSE IF probe.state.last_intent \in GOAL_INTENTS THEN probe.state.last_intent
    ELSE None

\* recover returned the canned question for slot and slot as pending slot,
\* without text of the generation service
AsksSlot(slot) ==
    /\ ~probe.raised
    /\ probe.out.message = build_clarification_question(<<slot>>)
    /\ probe.out.pending_missing_info = <<slot>>
    /\ ~probe.out.used_llm

\* the outcome of the call depends on what the generation service does: with
\* the service failing the call raises, with a plan the plan is returned
ServiceDecidedOutcome ==
    /\ probe.o = ServiceError => probe.raised
    /\ probe.o = ServiceText(<<"Here is your plan.">>) =>
          (~probe.raised /\ probe.out.used_llm /\ probe.out.message = <<"Here is your plan.">>)
    /\ probe.o = ServiceText(<<" ">>) => (~probe.raised /\ ~probe.out.used_llm)

\* C35: recover applies its steps in priority order and uses the generation
\* collaborator only as the last one: with a slot pending it returns that
\* slot's question; else with neither a standing goal nor an incoming goal
\* it asks for "goal"; else, taking the incoming goal before the standing
\* one, a failed validation yields the question for the first missing field
\* with that field as pending slot; only when no slot is pending, a goal is
\* known and its validation is ok is the generation collaborator called.
C35_RecoverPriorityOrder ==
    RecoverReturned =>
        IF probe.state.pending_missing_info # <<>>
        THEN AsksSlot(probe.state.pending_missing_info[1])
        ELSE IF ClaimedRecoverGoal = None THEN AsksSlot("goal")
        ELSE IF ~validate(ClaimedRecoverGoal, probe.state).ok
        THEN /\ validate(ClaimedRecoverGoal, probe.state).missing_info # <<>>
             /\ AsksSlot(validate(ClaimedRecoverGoal, probe.state).missing_info[1])
        ELSE ServiceDecidedOutcome

\* what holds: the same, the failed validation naming a missing field
RecoverPriorityOrderWithMissingField ==
    (/\ RecoverReturned
     /\ ~(/\ probe.state.pending_missing_info = <<>>
          /\ ClaimedRecoverGoal # None
          /\ ~validate(ClaimedRecoverGoal, probe.state).ok
          /\ validate(ClaimedRecoverGoal, probe.state).missing_info = <<>>))
    => IF probe.state.pending_missing_info # <<>>
       THEN AsksSlot(probe.state.pending_missing_info[1])
       ELSE IF ClaimedRecoverGoal = None THEN AsksSlot("goal")
       ELSE IF ~validate(ClaimedRecoverGoal, probe.state).ok
       THEN AsksSlot(validate(ClaimedRecoverGoal, probe.state).missing_info[1])
       ELSE ServiceDecidedOutcome

\* the validation failed for a duration of 0 and no field is missing: the
\* question names no slot, no slot is pending, the service is not called
RecoverAsksNoSlotForInvalidDuration ==
    /\ RecoverReturned
    /\ probe.state.pending_missing_info = <<>>
    /\ ClaimedRecoverGoal = ITINERARY_PLANNING
    /\ probe.state.trip_profile = TripProfile("Paris", {}, {}, {0})
    /\ ~probe.raised
    /\ probe.out.message = build_clarification_question(<<>>)
    /\ probe.out.pending_missing_info = <<>>

\* the texts of the user messages before the message of the turn, oldest first
PriorUserTexts ==
    LET prior == AllButLast(probe.state.conversation_history)
        users == {i \in 1..Len(prior) : prior[i].role = "user"}
    IN  [k \in 1..Cardinality(users) |->
            prior[CHOOSE i \in users : Cardinality({j \in users : j <= i}) = k].content]

NonBlankText(text) == Strip(text) # <<>>

AmountIn(text) == extract_currency_parts(text).amount

PairIn(text) == extract_currency_parts(text).pair

\* the value the newest text of the window holds, none when no text holds one
MostRecentValue(window, ValueIn(_)) ==
    LET hits == {i \in 1..Len(window) : ValueIn(window[i]) # {}}
    IN  IF hits = {} THEN {}
        ELSE ValueIn(window[CHOOSE i \in hits : \A j \in hits : j <= i])

\* the query of the message of the turn with each missing part taken from
\* the newest text of the window that holds one
FilledFromWindow(window) ==
    LET now_amount == AmountIn(probe.user_message)
        now_pair == PairIn(probe.user_message)
        amount == IF now_amount # {} THEN now_amount
                  ELSE IF probe.state.pending_missing_info = <<"currency_amount">>
                  THEN MostRecentValue(window, AmountIn) ELSE {}
        pair == IF now_pair # {} THEN now_pair ELSE MostRecentValue(window, PairIn)
    IN  {CurrencyQuery(a, p[1], p[2]) : a \in amount, p \in pair}

\* decide combined a message that holds one part of a query with the history
CombinationDecided ==
    /\ DecideReturned /\ probe.intent = CURRENCY_CONVERSION /\ probe.validation.ok
    /\ probe.state.pending_missing_info \in {<<"currency_amount">>, <<"currency_pair">>}
    /\ parse_currency_query(probe.user_message) = {}
    /\ (AmountIn(probe.user_message) # {} \/ PairIn(probe.user_message) # {})

\* the decision is the call of the currency tool with that query, or a
\* question when there is no query
DecidedOn(currency_query) ==
    IF currency_query = {} THEN probe.out.action = ASK_CLARIFICATION
    ELSE probe.out.action = CALL_TOOL /\ probe.out.tool_payload = currency_query

\* C36 as stated: a missing part of the currency query is filled only from
\* prior user messages, from the most recent one that holds it among the last
\* 10 user messages, and a part the current message holds is kept.
C36_FilledFromLastTenUserMessages ==
    CombinationDecided
        => DecidedOn(FilledFromWindow(LastN(PriorUserTexts, max_lookback_user_messages)))

\* C36: a missing part of the currency query is filled only from prior user
\* messages, from the most recent one that holds it among the last 10 user
\* messages that are not blank, and a part the current message holds is kept.
C36_FilledFromLastTenNonBlankUserMessages ==
    CombinationDecided
        => DecidedOn(FilledFromWindow(LastN(SelectSeq(PriorUserTexts, NonBlankText),
                                            max_lookback_user_messages)))

\* the pair is taken from the newer of two user messages that hold one, and
\* the query of the assistant message is left alone
C36_Witness ==
    /\ CombinationDecided /\ probe.user_message = <<"100">>
    /\ Len(PriorUserTexts) = 2 /\ PairIn(PriorUserTexts[1]) = {<<"GBP", "USD">>}
    /\ probe.out.action = CALL_TOOL
    /\ probe.out.tool_payload = {CurrencyQuery(100, "EUR", "GBP")}

\* the only query of the history is in an assistant message: nothing is filled
AssistantQueryNotUsed ==
    /\ CombinationDecided /\ PriorUserTexts = << <<"convert">> >>
    /\ probe.state.conversation_history[1].role = "assistant"
    /\ probe.out.action = ASK_CLARIFICATION

\* the amount of the message is kept although a newer prior message holds another
AmountOfMessageKept ==
    /\ CombinationDecided /\ probe.user_message = <<"100">>
    /\ probe.state.pending_missing_info = <<"currency_amount">>
    /\ PriorUserTexts = << <<"gbp", "to", "usd">>, <<"50">> >>
    /\ probe.out.tool_payload = {CurrencyQuery(100, "GBP", "USD")}

\* the 11th user message from the end is not read
EleventhMessageNotRead ==
    /\ CombinationDecided /\ Len(PriorUserTexts) = max_lookback_user_messages + 1
    /\ \A i \in 1..Len(PriorUserTexts) : NonBlankText(PriorUserTexts[i])
    /\ probe.out.action = ASK_CLARIFICATION

\* the 11th user message from the end is read when a blank one follows it
EleventhMessageReadPastBlank ==
    /\ CombinationDecided /\ Len(PriorUserTexts) = max_lookback_user_messages + 1
    /\ \E i \in 1..Len(PriorUserTexts) : ~NonBlankText(PriorUserTexts[i])
    /\ probe.out.action = CALL_TOOL

\* a call of handle_turn for the currency goal came to a decision and ended
CurrencyGoalTurn ==
    /\ Finished /\ Call.intent_for_flow = CURRENCY_CONVERSION
    /\ Call.decision.action # None

\* C37: for a currency goal the router returns ask-clarification or call-tool
\* "currency" and never generate-response, and the executor does not call the
\* generation service: after a conversion the answer is the text formatted
\* from the tool data.
C37_CurrencyAnswerNotGenerated ==
    CurrencyGoalTurn =>
        /\ Call.decision.action \in {ASK_CLARIFICATION, CALL_TOOL}
        /\ Call.decision.action = CALL_TOOL => Call.decision.tool_name = "currency"
        /\ ~turn_calls_generation(Call.decision, Call.intent_for_flow, Call.tool)
        /\ ~Call.exec_failed => ~Call.generated /\ Call.service_calls = 0
        /\ Call.tool = "ok" =>
              /\ ~Call.exec_failed
              /\ Call.assistant_text = format_currency_from_tool

\* a conversion was answered
C37_Witness ==
    /\ CurrencyGoalTurn /\ Call.tool = "ok"
    /\ Call.decision.tool_payload = {CurrencyQuery(100, "USD", "EUR")}
    /\ Call.assistant_text = format_currency_from_tool

\* the currency tool raised and the reply of the turn is the text the
\* generation service gave to recovery
CurrencyReplyWrittenInRecovery ==
    /\ CurrencyGoalTurn /\ Call.tool = "raise" /\ Call.exec_failed
    /\ Call.service_calls = 1
    /\ Call.assistant_text = <<"Here is your plan.">>

\* decide for the currency goal, whatever the validation and the State
CurrencyGoalRouted ==
    DecideReturned /\ probe.intent = CURRENCY_CONVERSION =>
        /\ probe.out.action \in {ASK_CLARIFICATION, CALL_TOOL}
        /\ probe.out.action = CALL_TOOL => probe.out.tool_name = "currency"

\* the two intent fields of a State hold nothing or a goal intent
IntentFieldsInRange(state) ==
    /\ state.last_intent \in GOAL_INTENTS \cup {None}
    /\ state.primary_intent \in (GOAL_INTENTS \ {CURRENCY_CONVERSION}) \cup {None}

\* C38: in every State of a session last_intent is unset or one of the five
\* goal intents and primary_intent is unset or one of the four goal intents
\* other than currency conversion, and neither field, once set, is unset again.
C38_IntentFieldsGoalsAndStaySet ==
    /\ [](\A ref \in DOMAIN heap : IntentFieldsInRange(heap[ref]))
    /\ [][\A ref \in DOMAIN heap :
              /\ ref \in DOMAIN heap'
              /\ heap[ref].last_intent # None => heap'[ref].last_intent # None
              /\ heap[ref].primary_intent # None => heap'[ref].primary_intent # None]_vars

\* a turn whose intent is no goal ended and left both fields as they were set
C38_Witness ==
    /\ Finished /\ Call.intent_for_flow \in {OUT_OF_SCOPE, CLARIFICATION_NEEDED}
    /\ Call.prev_intent = ITINERARY_PLANNING
    /\ heap[Call.ref].last_intent = ITINERARY_PLANNING
    /\ heap[Call.ref].primary_intent = ITINERARY_PLANNING

\* the same after a currency turn: primary_intent has never been set
OutOfScopeKeepsCurrencyGoal ==
    /\ Finished /\ Call.intent_for_flow = OUT_OF_SCOPE
    /\ Call.prev_intent = CURRENCY_CONVERSION
    /\ heap[Call.ref].last_intent = CURRENCY_CONVERSION
    /\ heap[Call.ref].primary_intent = None

\* a follow-up of the standing goal is recorded as that goal
ConstraintsUpdateKeepsGoal ==
    /\ Finished /\ Call.raw_intent = CONSTRAINTS_UPDATE
    /\ Call.intent_for_flow = ITINERARY_PLANNING
    /\ heap[Call.ref].last_intent = ITINERARY_PLANNING

\* a follow-up with no standing goal leaves both fields unset
ConstraintsUpdateWithoutGoal ==
    /\ Finished /\ Call.raw_intent = CONSTRAINTS_UPDATE
    /\ Call.intent_for_flow = CLARIFICATION_NEEDED
    /\ heap[Call.ref].last_intent = None /\ heap[Call.ref].primary_intent = None

\* the step is a call of handle_turn in which the call of the intent service
\* failed (an error or a timeout)
IntentCallFailedTurn ==
    /\ thr'["t1"].calls = thr["t1"].calls + 1
    /\ thr'["t1"].intent_failed

\* the turn ended with the exception and the State of the session is what it
\* was, every field of it, as is every other State
SessionLeftAsItWas ==
    /\ thr'["t1"].outcome = "raised"
    /\ store'["s1"] # 0
    /\ heap'[store'["s1"]] = StateBefore
    /\ \A ref \in DOMAIN heap : heap'[ref] = heap[ref]

\* C39: when the call of the intent collaborator fails during a turn, the
\* session is left as it was before the turn: no user message appended, no
\* trip update merged, turn_count, last_intent, primary_intent and
\* pending_missing_info unchanged.
C39_FailedIntentCallLeavesSession ==
    [][IntentCallFailedTurn => SessionLeftAsItWas]_vars

\* the intent call failed in the second turn of a session: the history still
\* holds the two messages of the first turn and the slot the first turn asked
\* for is still outstanding
C39_Witness ==
    /\ Finished /\ Call.intent_failed /\ Call.outcome = "raised"
    /\ Call.calls = 2
    /\ Stored("s1").turn_count = 1
    /\ Len(Stored("s1").conversation_history) = 2
    /\ Stored("s1").last_intent # None
    /\ Len(Stored("s1").pending_missing_info) = 1

\* the intent call failed in the first turn of a session: the store holds a
\* State as constructed
FailedFirstTurnLeavesNewState ==
    /\ Finished /\ Call.intent_failed /\ Call.calls = 1
    /\ Stored("s1") = NewState("s1", 0)

\* decide returned the call of the weather tool
WeatherCallRouted ==
    /\ DecideReturned
    /\ probe.out.action = CALL_TOOL /\ probe.out.tool_name = "weather"

\* C40: whenever the router returns call-tool "weather" for a trip profile,
\* the date range the weather client derives from that profile (start
\* defaulting to today, end defaulting to start) has between 1 and 16 days,
\* so the client does not reject the call before contacting the provider.
C40_RoutedWeatherCallAccepted ==
    WeatherCallRouted =>
        /\ client_accepts_range(probe.state.trip_profile)
        /\ \A days \in client_range_days(probe.state.trip_profile) :
              days \in 1..FORECAST_HORIZON_DAYS

\* what holds: the two checks agree unless the profile has an end date and
\* no start date
RoutedWeatherCallAcceptedWithStart ==
    WeatherCallRouted
    /\ (probe.state.trip_profile.start_date # {} \/ probe.state.trip_profile.end_date = {})
        => client_accepts_range(probe.state.trip_profile)

\* an end date 16 days ahead and no start date: routed, and 17 days for the client
RoutedWeatherCallRejected ==
    /\ WeatherCallRouted
    /\ probe.state.trip_profile.start_date = {}
    /\ probe.state.trip_profile.end_date = {16}
    /\ client_range_days(probe.state.trip_profile) = {17}
    /\ ~client_accepts_range(probe.state.trip_profile)

\* a start date in the past and an end date ahead: routed and accepted
RoutedPastStartAccepted ==
    /\ WeatherCallRouted
    /\ probe.state.trip_profile.start_date = {-5}
    /\ client_accepts_range(probe.state.trip_profile)

====
